---- MODULE Spec2Model ----
(***************************************************************************)
(* ssb-validate: validation of Secure Scuttlebutt messages and hash        *)
(* chains (src/src/message.rs, src/src/message_value.rs, src/src/utils.rs).*)
(*                                                                         *)
(* Input bytes are modelled by what the decoders and helper functions of   *)
(* the crate read from them:                                               *)
(*   form    which typed decode succeeds ("kvt": SsbMessage, "value":      *)
(*           SsbMessageValue, "garbage": no JSON, "array": JSON with       *)
(*           another root than an object);                                 *)
(*   key     the key member of a KVT;                                      *)
(*   top     the top-level keys of a KVT besides key and value;            *)
(*   value   the fields of the message value, plus the keys of the value   *)
(*           as written (layout) and a named sample content;               *)
(*   ws      the whitespace of the bytes (0 is the whitespace the          *)
(*           serializer writes with compact = false).                      *)
(* A Multihash is modelled as the text that was hashed (SHA-256 taken as   *)
(* collision free), Null (the empty tuple) is JSON null / Option::None,    *)
(* and an Option is a sequence of length 0 or 1.                           *)
(***************************************************************************)
EXTENDS Integers, Sequences, FiniteSets, TLC

\* ------------------------------------------------------------------ bounds
NumAuthors == 2
\* width of the sequence counter in the model (u64 in the source)
SeqBits == 2
\* longest slice handed to a batch driver
MaxBatch == 3
\* longest base64 part of a string handed to is_canonical_base64
MaxBody == 4
\* longest text, in scalars, handed to the hash functions
MaxText == 3

Authors == 1..NumAuthors
MaxU64 == (2 ^ SeqBits) - 1
Sequences == 0..MaxU64

Null == <<>>
None == <<>>
Some(x) == <<x>>
IsSome(o) == Len(o) = 1
Unwrap(o) == o[1]

\* ------------------------------------------------------------------ errors
Ok == [tag |-> "Ok"]
\* a panic of the Rust code (failed expect / unwrap, panic!(), arithmetic
\* overflow with overflow checks on)
Abort == [tag |-> "panic"]
\* the panic of previous_key.expect(..) on None, and of the panic!() arm
ExpectFailed == [tag |-> "panic", at |-> "expect"]
PanicArm == [tag |-> "panic", at |-> "panic!()"]
InvalidPreviousMessage == [tag |-> "InvalidPreviousMessage"]
InvalidMessage == [tag |-> "InvalidMessage"]
InvalidMessageValueOrder == [tag |-> "InvalidMessageValueOrder"]
AuthorsDidNotMatch(pa, a) ==
    [tag |-> "AuthorsDidNotMatch", previous_author |-> pa, author |-> a]
FirstMessageDidNotHaveSequenceOfOne == [tag |-> "FirstMessageDidNotHaveSequenceOfOne"]
FirstMessageDidNotHavePreviousOfNull == [tag |-> "FirstMessageDidNotHavePreviousOfNull"]
InvalidHashFunction == [tag |-> "InvalidHashFunction"]
InvalidBase64 == [tag |-> "InvalidBase64"]
InvalidMessageValueLength == [tag |-> "InvalidMessageValueLength"]
InvalidSequenceNumber(act, exp) ==
    [tag |-> "InvalidSequenceNumber", actual |-> act, expected |-> exp]
InvalidMessageNoValue == [tag |-> "InvalidMessageNoValue"]
ActualHashDidNotMatchKey(act, exp) ==
    [tag |-> "ActualHashDidNotMatchKey", actual_hash |-> act, expected_hash |-> exp]
PreviousWasNull == [tag |-> "PreviousWasNull"]
ForkedFeed(ps) == [tag |-> "ForkedFeed", previous_seq |-> ps]

\* ------------------------------------------------------------------ data
\* key orders of a value object: the canonical one, author and sequence
\* swapped, and hash written before timestamp
Layouts == {"canon", "swapAS", "hashFirst"}
\* further layouts: an unknown key after signature, the same with hash
\* written before timestamp, and no hash key
AllLayouts == Layouts \cup {"extraKey", "extraHashFirst", "noHash"}
\* the top-level keys of a value object, in the order they are written
KeysOf(layout) ==
    CASE layout = "canon" ->
             <<"previous", "author", "sequence", "timestamp", "hash", "content", "signature">>
      [] layout = "swapAS" ->
             <<"previous", "sequence", "author", "timestamp", "hash", "content", "signature">>
      [] layout = "hashFirst" ->
             <<"previous", "author", "sequence", "hash", "timestamp", "content", "signature">>
      [] layout = "extraKey" ->
             <<"previous", "author", "sequence", "timestamp", "hash", "content", "signature", "extra">>
      [] layout = "extraHashFirst" ->
             <<"previous", "author", "sequence", "hash", "timestamp", "content", "signature", "extra">>
      [] layout = "noHash" ->
             <<"previous", "author", "sequence", "timestamp", "content", "signature">>
\* the fields of struct SsbMessageValue; previous is an Option, which the
\* derived decoder fills with None when the key is missing
ValueFields ==
    {"previous", "author", "sequence", "timestamp", "hash", "content", "signature"}
RequiredFields == ValueFields \ {"previous"}

\* content: a JSON object, an object so large that the pretty value is longer
\* than 8192 UTF-16 code units, a canonical base64 ".box" string, and a
\* string that is not canonical base64
Contents == {"object", "bigobject", "box", "badstring"}
\* further contents: an object with members named hash and content; a
\* string whose base64 is followed by "!box"; objects that bring the pretty
\* value to exactly the length limit and to one unit more, without and with
\* a scalar above U+FFFF
AllContents ==
    Contents \cup {"decoy", "dotless", "edge", "over", "astralEdge", "astralOver"}
HashNames == {"sha256", "other"}

\* the quoted strings written inside a content
ContentTokens(content) ==
    CASE content = "decoy" -> <<"type", "hash", "content">>
      [] content \in {"box", "badstring", "dotless"} -> <<>>
      [] OTHER -> <<"type">>
\* the characters of a string content
ContentString(content) ==
    CASE content = "box" -> <<"A", "A", "A", "A", ".", "b", "o", "x">>
      [] content = "badstring" -> <<"=", "=", "A", "A", ".", "b", "o", "x">>
      [] content = "dotless" -> <<"A", "A", "A", "A", "!", "b", "o", "x">>

\* the text of a value: its members in the order written, and its whitespace
ValueText(v, ws) ==
    <<v.previous, v.author, v.sequence, v.hash, v.content, v.layout, ws>>

\* json::to_vec(value, false) / json::to_string(value, false): the serializer's
\* own whitespace, whatever the whitespace of the input was
to_vec(v) == ValueText(v, 0)

\* utils::multihash_from_bytes: SHA-256 of the low bytes of the UTF-16 code
\* units of the text, as a Multihash::Message
multihash_from_bytes(text) == <<"%", text>>

\* a hash that is the hash of no value of the model
Bogus == multihash_from_bytes(<<Null, 0, 0, "sha256", "object", "canon", 0>>)

Garbage == [form |-> "garbage"]
\* bytes that are JSON with another root than an object
JsonArray == [form |-> "array"]
\* from_slice::<Value>(bytes): is it JSON, is its root an object, and has the
\* object a member named value
IsJson(b) == b.form # "garbage"
RootIsObject(b) == b.form \in {"kvt", "value"}
HasValueMember(b) == b.form = "kvt"
\* top-level keys of a KVT: key, value and timestamp; no timestamp; an
\* additional key; additional keys named hash, content and signature
Tops == {"kvt", "kv", "extra", "decoy"}
KVTWith(k, v, ws, top) ==
    [form |-> "kvt", key |-> k, value |-> v, ws |-> ws, top |-> top]
KVT(k, v, ws) == KVTWith(k, v, ws, "kvt")
ValueBytes(v, ws) == [form |-> "value", value |-> v, ws |-> ws]

\* the top-level keys written after the value member of a KVT
KeysAfterValue(top) ==
    CASE top = "kvt" -> <<"timestamp">>
      [] top = "kv" -> <<>>
      [] top = "extra" -> <<"timestamp", "extra">>
      [] top = "decoy" -> <<"timestamp", "hash", "content", "signature">>

\* the quoted strings of the bytes that the order pattern can meet, in the
\* order they are written
RECURSIVE ValueTokens(_, _, _)
ValueTokens(keys, i, content) ==
    IF i > Len(keys) THEN <<>>
    ELSE <<keys[i]>>
         \o (IF keys[i] = "content" THEN ContentTokens(content) ELSE <<>>)
         \o ValueTokens(keys, i + 1, content)
Tokens(form, layout, content, top) ==
    LET v == ValueTokens(KeysOf(layout), 1, content)
    IN  IF form = "kvt" THEN <<"key", "value">> \o v \o KeysAfterValue(top)
        ELSE v

\* the raw text of a value-form input
RawText(b) == ValueText(b.value, b.ws)

\* the decode of a value object into SsbMessageValue: deny_unknown_fields
\* refuses a key that is no field, and a field that is no Option must be there
DecodableLayouts ==
    {layout \in AllLayouts :
        LET keys == {KeysOf(layout)[i] : i \in 1..Len(KeysOf(layout))}
        IN  keys \subseteq ValueFields /\ RequiredFields \subseteq keys}
\* the decode without deny_unknown_fields
DecodesValue_ignoring_unknown(v) ==
    LET keys == {KeysOf(v.layout)[i] : i \in 1..Len(KeysOf(v.layout))}
    IN  RequiredFields \subseteq keys
\* the decode with hash an Option
DecodesValue_optional_hash(v) ==
    v.layout \in DecodableLayouts \cup {"noHash"}

DecodesValue(v) == v.layout \in DecodableLayouts
\* from_slice::<SsbMessage>(bytes).is_ok(): SsbMessage has the fields key and
\* value and does not deny unknown fields
DecodesAsSsbMessage(b) == b.form = "kvt" /\ DecodesValue(b.value)
\* from_slice::<SsbMessageValue>(bytes).is_ok(): deny_unknown_fields rejects
\* the key member of a KVT
DecodesAsSsbMessageValue(b) == b.form = "value" /\ DecodesValue(b.value)

\* the pattern of is_correct_order: the quoted names that must be found in
\* this order, with anything between them
OrderPattern ==
    <<{"previous"}, {"author", "sequence"}, {"author", "sequence"},
      {"timestamp"}, {"hash"}, {"content"}, {"signature"}>>
\* an unanchored search: the leftmost quoted string that fits is taken
RECURSIVE FindInOrder(_, _, _)
FindInOrder(tokens, i, j) ==
    IF j > Len(OrderPattern) THEN TRUE
    ELSE IF i > Len(tokens) THEN FALSE
    ELSE IF tokens[i] \in OrderPattern[j] THEN FindInOrder(tokens, i + 1, j + 1)
    ELSE FindInOrder(tokens, i + 1, j)

\* the outcome of the search for every text of the model
OrderFound ==
    [form \in {"kvt", "value"} |-> [layout \in AllLayouts |->
        [content \in AllContents |-> [top \in Tops |->
            FindInOrder(Tokens(form, layout, content, top), 1, 1)]]]]

\* utils::is_correct_order(bytes), bytes being the whole input
is_correct_order(b) ==
    OrderFound[b.form][b.value.layout][b.value.content]
              [IF b.form = "kvt" THEN b.top ELSE "kvt"]
\* characters of the model and the classes of the pattern they are in:
\* [a-zA-Z0-9/+], [AQgw] and [AEIMQUYcgkosw048]
Alphabet == {"A", "E", "B", "b", "o", "x", "=", ".", "!", "\n"}
Base64Char(c) == c \in {"A", "E", "B", "b", "o", "x"}
PadOne(c) == c \in {"A"}
PadTwo(c) == c \in {"A", "E", "o"}
AllBase64(s, n) == \A k \in 1..n : Base64Char(s[k])
\* the optional last group: X[AQgw]== or XX[AEIMQUYcgkosw048]=
PaddedGroup(s, n) ==
    /\ Base64Char(s[n - 3])
    /\ s[n] = "="
    /\ \/ PadOne(s[n - 2]) /\ s[n - 1] = "="
       \/ Base64Char(s[n - 2]) /\ PadTwo(s[n - 1])
\* ^(?:[a-zA-Z0-9/+]{4})*(?:...)? matched by the first n characters
Base64Prefix(s, n) ==
    /\ n % 4 = 0
    /\ \/ AllBase64(s, n)
       \/ n >= 4 /\ AllBase64(s, n - 4) /\ PaddedGroup(s, n)

\* utils::is_canonical_base64: the base64 prefix, then . (any character but a
\* line feed), then box, then .* (no line feed) up to the end of the text
is_canonical_base64(private_msg) ==
    \E n \in 0..Len(private_msg) :
        /\ Base64Prefix(private_msg, n)
        /\ n + 4 <= Len(private_msg)
        /\ private_msg[n + 1] # "\n"
        /\ private_msg[n + 2] = "b" /\ private_msg[n + 3] = "o" /\ private_msg[n + 4] = "x"
        /\ \A k \in (n + 5)..Len(private_msg) : private_msg[k] # "\n"

\* Value::String(private_msg) = &message_value.content.0
IsString(content) == content \in {"box", "badstring", "dotless"}
\* the outcome of is_canonical_base64 for the string contents of the model
CanonicalContent ==
    [content \in {c \in AllContents : IsString(c)} |->
        is_canonical_base64(ContentString(content))]

\* the limit of is_correct_length, in UTF-16 code units
LengthLimit == 8192
\* json::to_string(msg_value, false): the scalars of the text, counted by
\* their kind (up to U+FFFF, above U+FFFF)
PrettyScalars(v) ==
    CASE v.content = "bigobject" -> [bmp |-> 2 * LengthLimit, astral |-> 0]
      [] v.content = "edge" -> [bmp |-> LengthLimit, astral |-> 0]
      [] v.content = "over" -> [bmp |-> LengthLimit + 1, astral |-> 0]
      [] v.content = "astralEdge" -> [bmp |-> LengthLimit - 2, astral |-> 1]
      [] v.content = "astralOver" -> [bmp |-> LengthLimit - 1, astral |-> 1]
      [] OTHER -> [bmp |-> LengthLimit \div 8, astral |-> 0]
\* the sum of ch.len_utf16() over the scalars
msg_len(text) == text.bmp * 1 + text.astral * 2

\* is_correct_length counting scalars, not UTF-16 code units
is_correct_length_counting_scalars(v) ==
    ~(PrettyScalars(v).bmp + PrettyScalars(v).astral > LengthLimit)

\* utils::is_correct_length(value)
is_correct_length(v) == ~(msg_len(PrettyScalars(v)) > LengthLimit)

\* ------------------------------------------------------------------ checks
\* previous_value.sequence + 1 on u64: with overflow checks (debug builds) the
\* addition panics at u64::MAX, without them (release builds) it wraps to 0
Overflows(seq) == seq = MaxU64
expected_sequence(seq) == (seq + 1) % (MaxU64 + 1)

\* PreviousChecks with ForkedFeed carrying the sequence of the message itself
PreviousChecks_fork_own_seq(mv, pv, previous_key, oc) ==
    IF mv.author # pv.author THEN AuthorsDidNotMatch(pv.author, mv.author)
    ELSE IF Overflows(pv.sequence) /\ oc THEN Abort
    ELSE IF mv.sequence # expected_sequence(pv.sequence)
        THEN InvalidSequenceNumber(mv.sequence, expected_sequence(pv.sequence))
    ELSE IF mv.previous = Null THEN PreviousWasNull
    ELSE IF ~IsSome(previous_key) THEN ExpectFailed
    ELSE IF mv.previous # Unwrap(previous_key) THEN ForkedFeed(mv.sequence)
    ELSE Ok

\* message_value_common_checks, check_previous && previous_value is Some
PreviousChecks(mv, pv, previous_key, oc) ==
    IF mv.author # pv.author THEN AuthorsDidNotMatch(pv.author, mv.author)
    ELSE IF Overflows(pv.sequence) /\ oc THEN Abort
    ELSE IF mv.sequence # expected_sequence(pv.sequence)
        THEN InvalidSequenceNumber(mv.sequence, expected_sequence(pv.sequence))
    ELSE IF mv.previous = Null THEN PreviousWasNull
    ELSE IF ~IsSome(previous_key) THEN ExpectFailed
    ELSE IF mv.previous # Unwrap(previous_key) THEN ForkedFeed(pv.sequence)
    ELSE Ok

\* FirstMessageChecks with the two checks in the other order
FirstMessageChecks_previous_first(mv) ==
    IF mv.previous # Null THEN FirstMessageDidNotHavePreviousOfNull
    ELSE IF mv.sequence # 1 THEN FirstMessageDidNotHaveSequenceOfOne
    ELSE Ok

\* message_value_common_checks, check_previous && previous_value is None
FirstMessageChecks(mv) ==
    IF mv.sequence # 1 THEN FirstMessageDidNotHaveSequenceOfOne
    ELSE IF mv.previous # Null THEN FirstMessageDidNotHavePreviousOfNull
    ELSE Ok

\* the three checks message_value_common_checks runs before the checks of
\* the previous message
StructuralChecks(mv, message_bytes) ==
    IF ~is_correct_order(message_bytes) THEN InvalidMessageValueOrder
    ELSE IF mv.hash # "sha256" THEN InvalidHashFunction
    ELSE IF IsString(mv.content) /\ ~CanonicalContent[mv.content] THEN InvalidBase64
    ELSE Ok

LengthCheck(mv) ==
    IF is_correct_length(mv) THEN Ok ELSE InvalidMessageValueLength

ChainChecks(mv, previous_value, previous_key, check_previous, oc) ==
    IF ~check_previous THEN Ok
    ELSE IF IsSome(previous_value)
        THEN PreviousChecks(mv, Unwrap(previous_value), previous_key, oc)
    ELSE FirstMessageChecks(mv)

\* message_value_common_checks with the length checked before the chain
message_value_common_checks_length_first(mv, previous_value, message_bytes, previous_key, check_previous, oc) ==
    LET s == StructuralChecks(mv, message_bytes)
        c == ChainChecks(mv, previous_value, previous_key, check_previous, oc)
    IN  IF s # Ok THEN s
        ELSE IF LengthCheck(mv) # Ok THEN LengthCheck(mv)
        ELSE c

message_value_common_checks(mv, previous_value, message_bytes, previous_key, check_previous, oc) ==
    LET s == StructuralChecks(mv, message_bytes)
        c == ChainChecks(mv, previous_value, previous_key, check_previous, oc)
    IN  IF s # Ok THEN s
        ELSE IF c # Ok THEN c
        ELSE LengthCheck(mv)

\* KeyCheck hashing the value as it is written in the input
KeyCheck_of_input_bytes(message_bytes) ==
    LET message_actual_multihash ==
            multihash_from_bytes(ValueText(message_bytes.value, message_bytes.ws))
    IN  IF message_actual_multihash = message_bytes.key THEN Ok
        ELSE ActualHashDidNotMatchKey(message_actual_multihash, message_bytes.key)

\* KeyCheck with the two hashes of the error exchanged
KeyCheck_swapped(message_bytes) ==
    LET message_actual_multihash == multihash_from_bytes(to_vec(message_bytes.value))
    IN  IF message_actual_multihash = message_bytes.key THEN Ok
        ELSE ActualHashDidNotMatchKey(message_bytes.key, message_actual_multihash)

\* the tail of the three KVT validators: the message is parsed again as a
\* generic tree, its value member is serialized again, hashed, and compared
\* with key
KeyCheck(message_bytes) ==
    IF ~IsJson(message_bytes) THEN InvalidMessage
    ELSE IF ~RootIsObject(message_bytes) THEN PanicArm
    ELSE IF ~HasValueMember(message_bytes) THEN InvalidMessageNoValue
    ELSE LET message_actual_multihash ==
                 multihash_from_bytes(to_vec(message_bytes.value))
         IN  IF message_actual_multihash = message_bytes.key THEN Ok
             ELSE ActualHashDidNotMatchKey(message_actual_multihash, message_bytes.key)

AuthorCheck(mv, previous_value) ==
    IF IsSome(previous_value) /\ mv.author # Unwrap(previous_value).author
        THEN AuthorsDidNotMatch(Unwrap(previous_value).author, mv.author)
    ELSE Ok

\* ------------------------------------------------------------------ message.rs
\* validate_multi_author_message_hash_chain running the checks of a first
\* message (check_previous = true)
validate_multi_author_message_hash_chain_as_first(message_bytes, oc) ==
    IF ~DecodesAsSsbMessage(message_bytes) THEN InvalidMessage
    ELSE LET c == message_value_common_checks(message_bytes.value, None,
                      message_bytes, None, TRUE, oc)
         IN  IF c # Ok THEN c ELSE KeyCheck(message_bytes)

validate_multi_author_message_hash_chain(message_bytes, oc) ==
    IF ~DecodesAsSsbMessage(message_bytes) THEN InvalidMessage
    ELSE LET c == message_value_common_checks(message_bytes.value, None,
                      message_bytes, None, FALSE, oc)
         IN  IF c # Ok THEN c ELSE KeyCheck(message_bytes)

\* validate_ooo_message_hash_chain running the checks of the previous message
validate_ooo_message_hash_chain_checking_previous(message_bytes, previous_msg_bytes, oc) ==
    IF IsSome(previous_msg_bytes) /\ ~DecodesAsSsbMessage(Unwrap(previous_msg_bytes))
        THEN InvalidPreviousMessage
    ELSE IF ~DecodesAsSsbMessage(message_bytes) THEN InvalidMessage
    ELSE LET previous_value ==
                 IF IsSome(previous_msg_bytes)
                     THEN Some(Unwrap(previous_msg_bytes).value) ELSE None
             previous_key ==
                 IF IsSome(previous_msg_bytes)
                     THEN Some(Unwrap(previous_msg_bytes).key) ELSE None
             c == message_value_common_checks(message_bytes.value, previous_value,
                      message_bytes, previous_key, TRUE, oc)
         IN  IF c # Ok THEN c ELSE KeyCheck(message_bytes)

validate_ooo_message_hash_chain(message_bytes, previous_msg_bytes, oc) ==
    IF IsSome(previous_msg_bytes) /\ ~DecodesAsSsbMessage(Unwrap(previous_msg_bytes))
        THEN InvalidPreviousMessage
    ELSE IF ~DecodesAsSsbMessage(message_bytes) THEN InvalidMessage
    ELSE LET previous_value ==
                 IF IsSome(previous_msg_bytes)
                     THEN Some(Unwrap(previous_msg_bytes).value) ELSE None
             c == message_value_common_checks(message_bytes.value, None,
                      message_bytes, None, FALSE, oc)
             a == AuthorCheck(message_bytes.value, previous_value)
         IN  IF c # Ok THEN c
             ELSE IF a # Ok THEN a
             ELSE KeyCheck(message_bytes)

\* validate_message_hash_chain without the comparison of the key
validate_message_hash_chain_without_key_check(message_bytes, previous_msg_bytes, oc) ==
    IF IsSome(previous_msg_bytes) /\ ~DecodesAsSsbMessage(Unwrap(previous_msg_bytes))
        THEN InvalidPreviousMessage
    ELSE IF ~DecodesAsSsbMessage(message_bytes) THEN InvalidMessage
    ELSE LET previous_value ==
                 IF IsSome(previous_msg_bytes)
                     THEN Some(Unwrap(previous_msg_bytes).value) ELSE None
             previous_key ==
                 IF IsSome(previous_msg_bytes)
                     THEN Some(Unwrap(previous_msg_bytes).key) ELSE None
         IN  message_value_common_checks(message_bytes.value, previous_value,
                 message_bytes, previous_key, TRUE, oc)

\* validate_message_hash_chain not handing over the key of the predecessor
validate_message_hash_chain_dropping_key(message_bytes, previous_msg_bytes, oc) ==
    IF IsSome(previous_msg_bytes) /\ ~DecodesAsSsbMessage(Unwrap(previous_msg_bytes))
        THEN InvalidPreviousMessage
    ELSE IF ~DecodesAsSsbMessage(message_bytes) THEN InvalidMessage
    ELSE LET previous_value ==
                 IF IsSome(previous_msg_bytes)
                     THEN Some(Unwrap(previous_msg_bytes).value) ELSE None
             c == message_value_common_checks(message_bytes.value, previous_value,
                      message_bytes, None, TRUE, oc)
         IN  IF c # Ok THEN c ELSE KeyCheck(message_bytes)

\* validate_message_hash_chain validating the predecessor by itself first
validate_message_hash_chain_validating_previous(message_bytes, previous_msg_bytes, oc) ==
    IF IsSome(previous_msg_bytes) /\ ~DecodesAsSsbMessage(Unwrap(previous_msg_bytes))
        THEN InvalidPreviousMessage
    ELSE IF IsSome(previous_msg_bytes)
            /\ validate_multi_author_message_hash_chain(Unwrap(previous_msg_bytes), oc) # Ok
        THEN InvalidPreviousMessage
    ELSE IF ~DecodesAsSsbMessage(message_bytes) THEN InvalidMessage
    ELSE LET previous_value ==
                 IF IsSome(previous_msg_bytes)
                     THEN Some(Unwrap(previous_msg_bytes).value) ELSE None
             previous_key ==
                 IF IsSome(previous_msg_bytes)
                     THEN Some(Unwrap(previous_msg_bytes).key) ELSE None
             c == message_value_common_checks(message_bytes.value, previous_value,
                      message_bytes, previous_key, TRUE, oc)
         IN  IF c # Ok THEN c ELSE KeyCheck(message_bytes)

\* validate_message_hash_chain decoding the message before the predecessor
validate_message_hash_chain_decoding_message_first(message_bytes, previous_msg_bytes, oc) ==
    IF ~DecodesAsSsbMessage(message_bytes) THEN InvalidMessage
    ELSE IF IsSome(previous_msg_bytes) /\ ~DecodesAsSsbMessage(Unwrap(previous_msg_bytes))
        THEN InvalidPreviousMessage
    ELSE LET previous_value ==
                 IF IsSome(previous_msg_bytes)
                     THEN Some(Unwrap(previous_msg_bytes).value) ELSE None
             previous_key ==
                 IF IsSome(previous_msg_bytes)
                     THEN Some(Unwrap(previous_msg_bytes).key) ELSE None
             c == message_value_common_checks(message_bytes.value, previous_value,
                      message_bytes, previous_key, TRUE, oc)
         IN  IF c # Ok THEN c ELSE KeyCheck(message_bytes)

\* validate_message_hash_chain comparing the key before the other checks
validate_message_hash_chain_key_first(message_bytes, previous_msg_bytes, oc) ==
    IF IsSome(previous_msg_bytes) /\ ~DecodesAsSsbMessage(Unwrap(previous_msg_bytes))
        THEN InvalidPreviousMessage
    ELSE IF ~DecodesAsSsbMessage(message_bytes) THEN InvalidMessage
    ELSE LET previous_value ==
                 IF IsSome(previous_msg_bytes)
                     THEN Some(Unwrap(previous_msg_bytes).value) ELSE None
             previous_key ==
                 IF IsSome(previous_msg_bytes)
                     THEN Some(Unwrap(previous_msg_bytes).key) ELSE None
             c == message_value_common_checks(message_bytes.value, previous_value,
                      message_bytes, previous_key, TRUE, oc)
         IN  IF KeyCheck(message_bytes) # Ok THEN KeyCheck(message_bytes) ELSE c

validate_message_hash_chain(message_bytes, previous_msg_bytes, oc) ==
    IF IsSome(previous_msg_bytes) /\ ~DecodesAsSsbMessage(Unwrap(previous_msg_bytes))
        THEN InvalidPreviousMessage
    ELSE IF ~DecodesAsSsbMessage(message_bytes) THEN InvalidMessage
    ELSE LET previous_value ==
                 IF IsSome(previous_msg_bytes)
                     THEN Some(Unwrap(previous_msg_bytes).value) ELSE None
             previous_key ==
                 IF IsSome(previous_msg_bytes)
                     THEN Some(Unwrap(previous_msg_bytes).key) ELSE None
             c == message_value_common_checks(message_bytes.value, previous_value,
                      message_bytes, previous_key, TRUE, oc)
         IN  IF c # Ok THEN c ELSE KeyCheck(message_bytes)

\* ------------------------------------------------------------------ message_value.rs
validate_message_value(message_bytes, oc) ==
    IF ~DecodesAsSsbMessageValue(message_bytes) THEN InvalidMessage
    ELSE message_value_common_checks(message_bytes.value, None, message_bytes,
             None, FALSE, oc)

validate_ooo_message_value_hash_chain(message_bytes, previous_msg_bytes, oc) ==
    IF IsSome(previous_msg_bytes) /\ ~DecodesAsSsbMessageValue(Unwrap(previous_msg_bytes))
        THEN InvalidPreviousMessage
    ELSE IF ~DecodesAsSsbMessageValue(message_bytes) THEN InvalidMessage
    ELSE LET previous_value ==
                 IF IsSome(previous_msg_bytes)
                     THEN Some(Unwrap(previous_msg_bytes).value) ELSE None
             c == message_value_common_checks(message_bytes.value, None,
                      message_bytes, None, FALSE, oc)
         IN  IF c # Ok THEN c
             ELSE AuthorCheck(message_bytes.value, previous_value)

\* validate_message_value_hash_chain hashing the predecessor's value written
\* again by the serializer, not the predecessor's bytes
validate_message_value_hash_chain_reserializing(message_bytes, previous_msg_bytes, oc) ==
    IF IsSome(previous_msg_bytes) /\ ~DecodesAsSsbMessageValue(Unwrap(previous_msg_bytes))
        THEN InvalidPreviousMessage
    ELSE IF ~DecodesAsSsbMessageValue(message_bytes) THEN InvalidMessage
    ELSE LET previous_value ==
                 IF IsSome(previous_msg_bytes)
                     THEN Some(Unwrap(previous_msg_bytes).value) ELSE None
             previous_key ==
                 IF IsSome(previous_msg_bytes)
                     THEN Some(multihash_from_bytes(to_vec(Unwrap(previous_msg_bytes).value)))
                     ELSE None
         IN  message_value_common_checks(message_bytes.value, previous_value,
                 message_bytes, previous_key, TRUE, oc)

validate_message_value_hash_chain(message_bytes, previous_msg_bytes, oc) ==
    IF IsSome(previous_msg_bytes) /\ ~DecodesAsSsbMessageValue(Unwrap(previous_msg_bytes))
        THEN InvalidPreviousMessage
    ELSE IF ~DecodesAsSsbMessageValue(message_bytes) THEN InvalidMessage
    ELSE LET previous_value ==
                 IF IsSome(previous_msg_bytes)
                     THEN Some(Unwrap(previous_msg_bytes).value) ELSE None
             previous_key ==
                 IF IsSome(previous_msg_bytes)
                     THEN Some(multihash_from_bytes(RawText(Unwrap(previous_msg_bytes))))
                     ELSE None
         IN  message_value_common_checks(message_bytes.value, previous_value,
                 message_bytes, previous_key, TRUE, oc)

\* ------------------------------------------------------------------ inputs
\* the members of a value that the structural checks read
Baseline == [hash |-> "sha256", content |-> "object", layout |-> "canon"]
Deviations(s) ==
    Cardinality({f \in {"hash", "content", "layout"} : s[f] # Baseline[f]})
\* the baseline and every shape that differs from it in one member
Shapes ==
    {s \in [hash : HashNames, content : Contents, layout : Layouts] :
        Deviations(s) <= 1}
\* shapes of a predecessor: the baseline, and one that fails every
\* structural check
PrevShapes ==
    {Baseline, [hash |-> "other", content |-> "badstring", layout |-> "hashFirst"]}

Value(p, a, n, s) ==
    [previous |-> p, author |-> a, sequence |-> n,
     hash |-> s.hash, content |-> s.content, layout |-> s.layout]

ValueHash(v) == multihash_from_bytes(to_vec(v))

Whitespaces == {0, 1}

PrevValues ==
    {Value(Null, a, n, s) : a \in Authors, n \in Sequences, s \in PrevShapes}
\* predecessor bytes: KVTs whose key is or is not the hash of their value,
\* values in either whitespace, and bytes that do not decode
\* (the third key is the key of the baseline message of the same author and
\* sequence: a predecessor whose value was changed and whose key was kept)
PrevKeys(v) ==
    {Bogus, ValueHash(v), ValueHash(Value(Null, v.author, v.sequence, Baseline))}
PrevKVTs == UNION {{KVT(k, v, 0) : k \in PrevKeys(v)} : v \in PrevValues}
PrevValueBytes == {ValueBytes(v, ws) : v \in PrevValues, ws \in Whitespaces}
AnyValue == Value(Null, 1, 1, Baseline)
OptPrevKVTs ==
    {None} \cup {Some(b) : b \in PrevKVTs \cup {Garbage, ValueBytes(AnyValue, 0)}}
OptPrevValueBytes ==
    {None} \cup {Some(b) : b \in PrevValueBytes
                              \cup {Garbage, KVT(ValueHash(AnyValue), AnyValue, 0)}}

\* the hashes a message may name as previous: a foreign one, the key of the
\* predecessor, the hash of the predecessor's bytes and of its value, and
\* the hash of the baseline message of the predecessor's author and sequence
PrevHashes(p) ==
    {Bogus} \cup
    (IF ~IsSome(p) \/ Unwrap(p).form = "garbage" THEN {}
     ELSE LET b == Unwrap(p)
              original == ValueHash(Value(Null, b.value.author, b.value.sequence, Baseline))
          IN  IF b.form = "kvt" THEN {b.key, original}
              ELSE {multihash_from_bytes(RawText(b)), ValueHash(b.value), original})

MsgValues(p) ==
    {Value(pr, a, n, s) :
        pr \in {Null} \cup PrevHashes(p), a \in Authors, n \in Sequences, s \in Shapes}
MsgKVTs(p) ==
    UNION {{KVT(k, v, 0) : k \in {Bogus, ValueHash(v)}} : v \in MsgValues(p)}
    \cup {Garbage, ValueBytes(AnyValue, 0)}
MsgValueBytes(p) ==
    {ValueBytes(v, 0) : v \in MsgValues(p)}
    \cup {Garbage, KVT(ValueHash(AnyValue), AnyValue, 0)}

\* ------------------------------------------------------------------ state
VARIABLES
    fn,               \* the public function that was called ("none" before)
    msg,              \* message_bytes of a single-message call
    prev,             \* previous_msg_bytes / previous: an Option
    overflow_checks,  \* the build: are arithmetic overflow checks compiled in
    res,              \* the value the call returned (None while it runs)
    messages,         \* the slice of a batch call
    status,           \* batch: per index, Pending, Skipped or the result
    full              \* batch: the consumers' shared short-circuit flag

vars == <<fn, msg, prev, overflow_checks, res, messages, status, full>>
batch_vars == <<messages, status, full>>

Init ==
    /\ fn = "none"
    /\ msg = Garbage
    /\ prev = None
    /\ overflow_checks \in BOOLEAN
    /\ res = None
    /\ messages = <<>>
    /\ status = <<>>
    /\ full = FALSE

\* a call returns: its arguments and its result are recorded
Return(f, m, p, r) ==
    /\ fn' = f
    /\ msg' = m
    /\ prev' = p
    /\ res' = Some(r)
    /\ UNCHANGED <<overflow_checks, batch_vars>>

ValidateMessageHashChain ==
    /\ fn = "none"
    /\ \E p \in OptPrevKVTs : \E m \in MsgKVTs(p) :
        Return("validate_message_hash_chain", m, p,
               validate_message_hash_chain(m, p, overflow_checks))

ValidateOooMessageHashChain ==
    /\ fn = "none"
    /\ \E p \in OptPrevKVTs : \E m \in MsgKVTs(p) :
        Return("validate_ooo_message_hash_chain", m, p,
               validate_ooo_message_hash_chain(m, p, overflow_checks))

ValidateMultiAuthorMessageHashChain ==
    /\ fn = "none"
    /\ \E m \in MsgKVTs(None) :
        Return("validate_multi_author_message_hash_chain", m, None,
               validate_multi_author_message_hash_chain(m, overflow_checks))

ValidateMessageValueHashChain ==
    /\ fn = "none"
    /\ \E p \in OptPrevValueBytes : \E m \in MsgValueBytes(p) :
        Return("validate_message_value_hash_chain", m, p,
               validate_message_value_hash_chain(m, p, overflow_checks))

ValidateOooMessageValueHashChain ==
    /\ fn = "none"
    /\ \E p \in OptPrevValueBytes : \E m \in MsgValueBytes(p) :
        Return("validate_ooo_message_value_hash_chain", m, p,
               validate_ooo_message_value_hash_chain(m, p, overflow_checks))

ValidateMessageValue ==
    /\ fn = "none"
    /\ \E m \in MsgValueBytes(None) :
        Return("validate_message_value", m, None,
               validate_message_value(m, overflow_checks))

Next ==
    \/ ValidateMessageHashChain
    \/ ValidateOooMessageHashChain
    \/ ValidateMultiAuthorMessageHashChain
    \/ ValidateMessageValueHashChain
    \/ ValidateOooMessageValueHashChain
    \/ ValidateMessageValue

Spec == Init /\ [][Next]_vars

\* ------------------------------------------------------------------ inputs that vary the text
\* the first message of a feed, well formed, and the values written after
\* it or in its place: every layout, hash name and content, with a sequence
\* and a previous that fit the predecessor or not
FirstKVT == KVT(ValueHash(AnyValue), AnyValue, 0)
TextValues ==
    {[previous |-> pr, author |-> 1, sequence |-> n,
      hash |-> h, content |-> c, layout |-> l] :
        pr \in {Null, FirstKVT.key}, n \in {1, 2},
        h \in HashNames, c \in AllContents, l \in AllLayouts}
TextKVTs ==
    UNION {{KVTWith(k, v, 0, top) : k \in {Bogus, ValueHash(v)}, top \in Tops} :
              v \in TextValues}
    \cup {Garbage}
TextValueBytes == {ValueBytes(v, ws) : v \in TextValues, ws \in Whitespaces} \cup {Garbage}
\* a predecessor whose value has a key that is no field of the value
UnknownKeyValue == [AnyValue EXCEPT !.layout = "extraKey"]
TextPrevKVTs ==
    {None, Some(FirstKVT), Some(Garbage),
     Some(KVT(ValueHash(UnknownKeyValue), UnknownKeyValue, 0))}
TextPrevValueBytes ==
    {None, Some(ValueBytes(AnyValue, 0)), Some(Garbage),
     Some(ValueBytes(UnknownKeyValue, 0))}

TextValidateMessageHashChain ==
    /\ fn = "none"
    /\ \E p \in TextPrevKVTs : \E m \in TextKVTs :
        Return("validate_message_hash_chain", m, p,
               validate_message_hash_chain(m, p, overflow_checks))

TextValidateOooMessageHashChain ==
    /\ fn = "none"
    /\ \E p \in TextPrevKVTs : \E m \in TextKVTs :
        Return("validate_ooo_message_hash_chain", m, p,
               validate_ooo_message_hash_chain(m, p, overflow_checks))

TextValidateMultiAuthorMessageHashChain ==
    /\ fn = "none"
    /\ \E m \in TextKVTs :
        Return("validate_multi_author_message_hash_chain", m, None,
               validate_multi_author_message_hash_chain(m, overflow_checks))

TextValidateMessageValueHashChain ==
    /\ fn = "none"
    /\ \E p \in TextPrevValueBytes : \E m \in TextValueBytes :
        Return("validate_message_value_hash_chain", m, p,
               validate_message_value_hash_chain(m, p, overflow_checks))

TextValidateOooMessageValueHashChain ==
    /\ fn = "none"
    /\ \E p \in TextPrevValueBytes : \E m \in TextValueBytes :
        Return("validate_ooo_message_value_hash_chain", m, p,
               validate_ooo_message_value_hash_chain(m, p, overflow_checks))

TextValidateMessageValue ==
    /\ fn = "none"
    /\ \E m \in TextValueBytes :
        Return("validate_message_value", m, None,
               validate_message_value(m, overflow_checks))

NextText ==
    \/ TextValidateMessageHashChain
    \/ TextValidateOooMessageHashChain
    \/ TextValidateMultiAuthorMessageHashChain
    \/ TextValidateMessageValueHashChain
    \/ TextValidateOooMessageValueHashChain
    \/ TextValidateMessageValue

SpecText == Init /\ [][NextText]_vars

\* ------------------------------------------------------------------ inputs that vary the whitespace
\* whitespace of a KVT as written: that of the serializer with compact =
\* false (0), another one (1), and none (2, what compact = true writes)
KvtWhitespaces == {0, 1, 2}
WsValues ==
    {Value(pr, 1, n, s) : pr \in {Null, FirstKVT.key}, n \in {1, 2}, s \in Shapes}
\* the key of a KVT: the hash of its value in each whitespace, or another
WsKVTs ==
    UNION {{KVT(k, v, ws) :
               k \in {Bogus} \cup {multihash_from_bytes(ValueText(v, w)) : w \in KvtWhitespaces},
               ws \in KvtWhitespaces} : v \in WsValues}

WsValidateMessageHashChain ==
    /\ fn = "none"
    /\ \E p \in {None, Some(FirstKVT)} : \E m \in WsKVTs :
        Return("validate_message_hash_chain", m, p,
               validate_message_hash_chain(m, p, overflow_checks))

WsValidateOooMessageHashChain ==
    /\ fn = "none"
    /\ \E p \in {None, Some(FirstKVT)} : \E m \in WsKVTs :
        Return("validate_ooo_message_hash_chain", m, p,
               validate_ooo_message_hash_chain(m, p, overflow_checks))

WsValidateMultiAuthorMessageHashChain ==
    /\ fn = "none"
    /\ \E m \in WsKVTs :
        Return("validate_multi_author_message_hash_chain", m, None,
               validate_multi_author_message_hash_chain(m, overflow_checks))

NextWhitespace ==
    \/ WsValidateMessageHashChain
    \/ WsValidateOooMessageHashChain
    \/ WsValidateMultiAuthorMessageHashChain

SpecWhitespace == Init /\ [][NextWhitespace]_vars

\* ------------------------------------------------------------------ is_canonical_base64 alone
\* strings: a base64 part with or without padding, then one character or
\* none, then box or another word, then a tail
BodyChars == {"A", "E", "B", "="}
Bodies == UNION {[1..k -> BodyChars] : k \in 0..MaxBody}
Separators == {<<>>, <<".">>, <<"!">>, <<"b">>, <<"\n">>}
Words == {<<"b", "o", "x">>, <<"b", "x", "o">>}
Tails == {<<>>, <<"!">>, <<"\n">>}
Base64Strings ==
    {b \o c \o w \o t : b \in Bodies, c \in Separators, w \in Words, t \in Tails}

InitBase64 ==
    /\ fn = "none"
    /\ msg \in Base64Strings
    /\ prev = None
    /\ overflow_checks = FALSE
    /\ res = None
    /\ messages = <<>>
    /\ status = <<>>
    /\ full = FALSE

IsCanonicalBase64 ==
    /\ fn = "none"
    /\ fn' = "is_canonical_base64"
    /\ res' = Some(is_canonical_base64(msg))
    /\ UNCHANGED <<msg, prev, overflow_checks, batch_vars>>

NextBase64 == IsCanonicalBase64

SpecBase64 == InitBase64 /\ [][NextBase64]_vars

\* ------------------------------------------------------------------ batch drivers
\* messages.par_iter().enumerate().try_fold(|| (), closure).try_reduce(|| (), ..):
\* the closure of each driver, applied to index i (from 1) of the slice
\* the closure validating every index against the external predecessor
par_validate_message_hash_chain_of_feed_closure_external(ms, previous, i, oc) ==
    validate_message_hash_chain(ms[i], previous, oc)

\* the closure calling the out-of-order validator
par_validate_message_hash_chain_of_feed_closure_ooo(ms, previous, i, oc) ==
    IF i = 1 THEN validate_ooo_message_hash_chain(ms[i], previous, oc)
    ELSE validate_ooo_message_hash_chain(ms[i], Some(ms[i - 1]), oc)

par_validate_message_hash_chain_of_feed_closure(ms, previous, i, oc) ==
    IF i = 1 THEN validate_message_hash_chain(ms[i], previous, oc)
    ELSE validate_message_hash_chain(ms[i], Some(ms[i - 1]), oc)

\* the closure never handing over the left neighbour
par_validate_ooo_message_hash_chain_of_feed_closure_alone(ms, previous, i, oc) ==
    validate_ooo_message_hash_chain(ms[i], None, oc)

par_validate_ooo_message_hash_chain_of_feed_closure(ms, previous, i, oc) ==
    IF i = 1 THEN validate_ooo_message_hash_chain(ms[i], None, oc)
    ELSE validate_ooo_message_hash_chain(ms[i], Some(ms[i - 1]), oc)

par_validate_multi_author_message_hash_chain_of_feed_closure(ms, previous, i, oc) ==
    validate_multi_author_message_hash_chain(ms[i], oc)

par_validate_message_value_hash_chain_of_feed_closure(ms, previous, i, oc) ==
    IF i = 1 THEN validate_message_value_hash_chain(ms[i], previous, oc)
    ELSE validate_message_value_hash_chain(ms[i], Some(ms[i - 1]), oc)

par_validate_ooo_message_value_hash_chain_of_feed_closure(ms, previous, i, oc) ==
    IF i = 1 THEN validate_ooo_message_value_hash_chain(ms[i], previous, oc)
    ELSE validate_ooo_message_value_hash_chain(ms[i], Some(ms[i - 1]), oc)

par_validate_message_value_closure(ms, previous, i, oc) ==
    validate_message_value(ms[i], oc)

Closure(driver, ms, previous, i, oc) ==
    CASE driver = "par_validate_message_hash_chain_of_feed" ->
             par_validate_message_hash_chain_of_feed_closure(ms, previous, i, oc)
      [] driver = "par_validate_ooo_message_hash_chain_of_feed" ->
             par_validate_ooo_message_hash_chain_of_feed_closure(ms, previous, i, oc)
      [] driver = "par_validate_multi_author_message_hash_chain_of_feed" ->
             par_validate_multi_author_message_hash_chain_of_feed_closure(ms, previous, i, oc)
      [] driver = "par_validate_message_value_hash_chain_of_feed" ->
             par_validate_message_value_hash_chain_of_feed_closure(ms, previous, i, oc)
      [] driver = "par_validate_ooo_message_value_hash_chain_of_feed" ->
             par_validate_ooo_message_value_hash_chain_of_feed_closure(ms, previous, i, oc)
      [] driver = "par_validate_message_value" ->
             par_validate_message_value_closure(ms, previous, i, oc)

Drivers ==
    {"par_validate_message_hash_chain_of_feed",
     "par_validate_ooo_message_hash_chain_of_feed",
     "par_validate_multi_author_message_hash_chain_of_feed",
     "par_validate_message_value_hash_chain_of_feed",
     "par_validate_ooo_message_value_hash_chain_of_feed",
     "par_validate_message_value"}

\* an index not yet taken by a worker, and one left unvalidated
Pending == [tag |-> "pending"]
Skipped == [tag |-> "skipped"]
IsError(r) == r.tag \notin {"Ok", "panic"}
Indices(st) == 1..Len(st)
Produced(st, i) == st[i].tag \notin {"pending", "skipped"}
Failed(st) == {i \in Indices(st) : Produced(st, i) /\ IsError(st[i])}
Panicked(st) == {i \in Indices(st) : Produced(st, i) /\ st[i].tag = "panic"}
Lowest(S) == CHOOSE i \in S : \A j \in S : i <= j

\* a reduction that reports every failure as the same error
try_reduce_fabricating(st) ==
    IF Panicked(st) # {} THEN Abort
    ELSE IF Failed(st) # {} THEN InvalidMessage
    ELSE Ok

\* try_reduce: a panic of a worker is resumed in the caller; otherwise, of two
\* results the reducer keeps the left one if it is an error, so the error of
\* the lowest index that produced one is returned; Ok if there is none
try_reduce(st) ==
    IF Panicked(st) # {} THEN Abort
    ELSE IF Failed(st) # {} THEN st[Lowest(Failed(st))]
    ELSE Ok

\* the feed of author 1: message k has sequence k and names message k - 1
RECURSIVE FeedValue(_)
FeedValue(k) ==
    Value(IF k = 1 THEN Null ELSE ValueHash(FeedValue(k - 1)), 1, k, Baseline)
FeedKVT(k) == KVT(ValueHash(FeedValue(k)), FeedValue(k), 0)

\* the messages of the batches: the first three messages of the feed, the
\* second one with a key that is not its hash, a second message by another
\* author, and bytes that do not decode
BatchKVTs ==
    {FeedKVT(k) : k \in 1..3}
    \cup {KVT(Bogus, FeedValue(2), 0),
          KVT(ValueHash(Value(ValueHash(FeedValue(1)), 2, 2, Baseline)),
              Value(ValueHash(FeedValue(1)), 2, 2, Baseline), 0),
          Garbage}
\* the same as values, and the second one in other whitespace
BatchValueBytes ==
    {ValueBytes(FeedValue(k), 0) : k \in 1..3}
    \cup {ValueBytes(FeedValue(2), 1),
          ValueBytes(Value(ValueHash(FeedValue(1)), 2, 2, Baseline), 0),
          Garbage}

SlicesOf(U) == UNION {[1..n -> U] : n \in 0..MaxBatch}

\* a batch driver is called: every index is pending
Start(driver, ms, previous) ==
    /\ fn' = driver
    /\ messages' = ms
    /\ prev' = previous
    /\ status' = [i \in 1..Len(ms) |-> Pending]
    /\ full' = FALSE
    /\ UNCHANGED <<msg, res, overflow_checks>>

ParValidateMessageHashChainOfFeed ==
    /\ fn = "none"
    /\ \E ms \in SlicesOf(BatchKVTs) : \E previous \in {None, Some(FeedKVT(1))} :
           Start("par_validate_message_hash_chain_of_feed", ms, previous)

ParValidateOooMessageHashChainOfFeed ==
    /\ fn = "none"
    /\ \E ms \in SlicesOf(BatchKVTs) :
           Start("par_validate_ooo_message_hash_chain_of_feed", ms, None)

ParValidateMultiAuthorMessageHashChainOfFeed ==
    /\ fn = "none"
    /\ \E ms \in SlicesOf(BatchKVTs) :
           Start("par_validate_multi_author_message_hash_chain_of_feed", ms, None)

ParValidateMessageValueHashChainOfFeed ==
    /\ fn = "none"
    /\ \E ms \in SlicesOf(BatchValueBytes) :
       \E previous \in {None, Some(ValueBytes(FeedValue(1), 0))} :
           Start("par_validate_message_value_hash_chain_of_feed", ms, previous)

ParValidateOooMessageValueHashChainOfFeed ==
    /\ fn = "none"
    /\ \E ms \in SlicesOf(BatchValueBytes) :
       \E previous \in {None, Some(ValueBytes(FeedValue(1), 0))} :
           Start("par_validate_ooo_message_value_hash_chain_of_feed", ms, previous)

ParValidateMessageValue ==
    /\ fn = "none"
    /\ \E ms \in SlicesOf(BatchValueBytes) :
           Start("par_validate_message_value", ms, None)

Running == fn \in Drivers /\ ~IsSome(res)

\* a worker applies the closure to a pending index; an error sets the shared
\* flag of the consumers. A worker that read the flag before it was set still
\* validates its item, so the step is not guarded by the flag.
Worker(i) ==
    /\ Running
    /\ i \in Indices(status)
    /\ status[i] = Pending
    /\ LET r == Closure(fn, messages, prev, i, overflow_checks)
       IN  /\ status' = [status EXCEPT ![i] = r]
           /\ full' = (full \/ IsError(r))
    /\ UNCHANGED <<fn, msg, prev, overflow_checks, res, messages>>

\* a folder that finds the flag set leaves its remaining items unvalidated
Skip(i) ==
    /\ Running
    /\ i \in Indices(status)
    /\ status[i] = Pending
    /\ full
    /\ status' = [status EXCEPT ![i] = Skipped]
    /\ UNCHANGED <<fn, msg, prev, overflow_checks, res, messages, full>>

\* every task has been joined: the driver returns the reduced result
DriverReturn ==
    /\ Running
    /\ \A i \in Indices(status) : status[i] # Pending
    /\ res' = Some(try_reduce(status))
    /\ UNCHANGED <<fn, msg, prev, overflow_checks, messages, status, full>>

NextBatch ==
    \/ ParValidateMessageHashChainOfFeed
    \/ ParValidateOooMessageHashChainOfFeed
    \/ ParValidateMultiAuthorMessageHashChainOfFeed
    \/ ParValidateMessageValueHashChainOfFeed
    \/ ParValidateOooMessageValueHashChainOfFeed
    \/ ParValidateMessageValue
    \/ \E i \in Indices(status) : Worker(i)
    \/ \E i \in Indices(status) : Skip(i)
    \/ DriverReturn

SpecBatch == Init /\ [][NextBatch]_vars

\* the workers of the pool keep taking items and the driver joins them
FairSpecBatch ==
    /\ SpecBatch
    /\ \A i \in 1..MaxBatch : WF_vars(Worker(i) \/ Skip(i))
    /\ WF_vars(DriverReturn)

\* ------------------------------------------------------------------ properties
Returned == IsSome(res)
Result == Unwrap(res)
P == Unwrap(prev)
M == msg

KvtValidators ==
    {"validate_message_hash_chain", "validate_ooo_message_hash_chain",
     "validate_multi_author_message_hash_chain"}
ChainValidators ==
    {"validate_message_hash_chain", "validate_message_value_hash_chain"}
OooValidators ==
    {"validate_ooo_message_hash_chain", "validate_ooo_message_value_hash_chain"}

\* the decode the called validator applies to its inputs
Decodes(b) ==
    IF fn \in KvtValidators THEN DecodesAsSsbMessage(b) ELSE DecodesAsSsbMessageValue(b)
\* the key of the predecessor as the called validator takes it: the key member
\* in full-message mode, the hash of the predecessor's bytes in value-only mode
KeyOf(b) ==
    IF b.form = "kvt" THEN b.key ELSE multihash_from_bytes(RawText(b))

\* errors of the checks that run before the chain checks
EarlierTags ==
    {"InvalidPreviousMessage", "InvalidMessage", "InvalidMessageValueOrder",
     "InvalidHashFunction", "InvalidBase64"}
\* the call got as far as the chain checks and did not panic
ReachedChainChecks == Result.tag \notin EarlierTags \cup {"panic"}

ChainCallWithPrev == Returned /\ fn \in ChainValidators /\ IsSome(prev)
ChainCallWithoutPrev == Returned /\ fn \in ChainValidators /\ ~IsSome(prev)

\* the first chain rule (in the order author, sequence, previous non-null,
\* previous = key) that m violates against p, "none" if it violates none;
\* the successor of a sequence number is the integer successor
FirstViolated(m, p) ==
    IF m.value.author # p.value.author THEN "AuthorsDidNotMatch"
    ELSE IF m.value.sequence # p.value.sequence + 1 THEN "InvalidSequenceNumber"
    ELSE IF m.value.previous = Null THEN "PreviousWasNull"
    ELSE IF m.value.previous # KeyOf(p) THEN "ForkedFeed"
    ELSE "none"

\* C1 (as claimed): with a predecessor, the chain validators return Ok only if
\* author, sequence (= P.sequence + 1), non-null previous and previous = P.key
\* all hold, and a call that reaches the chain checks reports the first
\* violated rule in the order AuthorsDidNotMatch, InvalidSequenceNumber,
\* PreviousWasNull, ForkedFeed.
C1_ChainRulesWithPredecessor ==
    ChainCallWithPrev =>
        /\ Result = Ok => FirstViolated(M, P) = "none"
        /\ (ReachedChainChecks /\ FirstViolated(M, P) # "none")
               => Result.tag = FirstViolated(M, P)

\* C1 away from the overflow of the sequence counter: the claim holds for
\* every predecessor whose sequence is below the largest u64
C1_BelowMaxSequence ==
    (ChainCallWithPrev /\ Decodes(P) /\ P.value.sequence < MaxU64)
        => /\ Result = Ok => FirstViolated(M, P) = "none"
           /\ (ReachedChainChecks /\ FirstViolated(M, P) # "none")
                  => Result.tag = FirstViolated(M, P)

\* C1 is reached: a successor of a predecessor with the largest sequence
\* number is accepted with sequence 0
C1_AcceptedAfterWrap ==
    /\ ChainCallWithPrev /\ Result = Ok
    /\ P.value.sequence = MaxU64 /\ M.value.sequence = 0

\* C2: without a predecessor the chain validators return Ok only if
\* sequence = 1 and previous = null; of a message that reaches the chain
\* checks, a sequence other than 1 is reported as
\* FirstMessageDidNotHaveSequenceOfOne (also when previous is non-null), and
\* otherwise a non-null previous as FirstMessageDidNotHavePreviousOfNull.
C2_FirstMessageRules ==
    ChainCallWithoutPrev =>
        /\ Result = Ok => (M.value.sequence = 1 /\ M.value.previous = Null)
        /\ (ReachedChainChecks /\ M.value.sequence # 1)
               => Result = FirstMessageDidNotHaveSequenceOfOne
        /\ (ReachedChainChecks /\ M.value.sequence = 1 /\ M.value.previous # Null)
               => Result = FirstMessageDidNotHavePreviousOfNull

C2_BothViolated ==
    /\ ChainCallWithoutPrev /\ Decodes(M)
    /\ M.value.sequence # 1 /\ M.value.previous # Null
    /\ Result = FirstMessageDidNotHaveSequenceOfOne

\* the public single-message validators by name
Validate(f, m, p, oc) ==
    CASE f = "validate_message_hash_chain" -> validate_message_hash_chain(m, p, oc)
      [] f = "validate_ooo_message_hash_chain" -> validate_ooo_message_hash_chain(m, p, oc)
      [] f = "validate_multi_author_message_hash_chain" ->
             validate_multi_author_message_hash_chain(m, oc)
      [] f = "validate_message_value_hash_chain" ->
             validate_message_value_hash_chain(m, p, oc)
      [] f = "validate_ooo_message_value_hash_chain" ->
             validate_ooo_message_value_hash_chain(m, p, oc)
      [] f = "validate_message_value" -> validate_message_value(m, oc)

\* the hash recomputed from the value of a KVT
RecomputedHash(b) == multihash_from_bytes(to_vec(b.value))
WithKey(b, k) == [b EXCEPT !.key = k]

\* C3: a KVT validator returns Ok only if the hash recomputed from the value
\* of the message equals its key; a message that differs from an accepted
\* one only in its key (so every earlier check passes) is rejected with
\* ActualHashDidNotMatchKey, actual_hash the recomputed hash and
\* expected_hash the claimed key.
C3_KeyIsHashOfValue ==
    (Returned /\ fn \in KvtValidators /\ Decodes(M)) =>
        /\ Result = Ok => RecomputedHash(M) = M.key
        /\ Result.tag = "ActualHashDidNotMatchKey" => RecomputedHash(M) # M.key
        /\ ( /\ RecomputedHash(M) # M.key
             /\ Validate(fn, WithKey(M, RecomputedHash(M)), prev, overflow_checks) = Ok )
               => Result = ActualHashDidNotMatchKey(RecomputedHash(M), M.key)

C3_WrongKeyReported ==
    /\ Returned /\ fn = "validate_message_hash_chain" /\ IsSome(prev)
    /\ Result.tag = "ActualHashDidNotMatchKey"
    /\ Result.expected_hash = M.key /\ Result.actual_hash # M.key

\* C4 (as claimed): InvalidSequenceNumber carries actual = M.sequence and
\* expected = P.sequence + 1, ForkedFeed carries previous_seq = P.sequence.
C4_ErrorsCarryThePair ==
    ChainCallWithPrev =>
        /\ Result.tag = "InvalidSequenceNumber"
               => /\ Result.actual = M.value.sequence
                  /\ Result.expected = P.value.sequence + 1
        /\ Result.tag = "ForkedFeed" => Result.previous_seq = P.value.sequence

\* C4 away from the overflow of the sequence counter
C4_BelowMaxSequence ==
    (ChainCallWithPrev /\ Decodes(P) /\ P.value.sequence < MaxU64) =>
        /\ Result.tag = "InvalidSequenceNumber"
               => /\ Result.actual = M.value.sequence
                  /\ Result.expected = P.value.sequence + 1
        /\ Result.tag = "ForkedFeed" => Result.previous_seq = P.value.sequence

\* the predecessors the called validator can be given
Predecessors == IF fn \in KvtValidators THEN PrevKVTs ELSE PrevValueBytes
\* (p0, m) is a valid adjacent pair: p0 is valid by itself, m is accepted
\* against p0 and m.sequence = p0.sequence + 1
ValidPair(p0, m) ==
    /\ m.form = p0.form
    /\ m.value.sequence = p0.value.sequence + 1
    /\ p0.form = "kvt" =>
           validate_multi_author_message_hash_chain(p0, overflow_checks) = Ok
    /\ p0.form = "value" => validate_message_value(p0, overflow_checks) = Ok
    /\ Validate(fn, m, Some(p0), overflow_checks) = Ok
\* p1 is p0 changed, with the author and the sequence kept
ChangedKeeping(p0, p1) ==
    /\ p1.form = p0.form
    /\ p1.value.author = p0.value.author
    /\ p1.value.sequence = p0.value.sequence

Single(m) ==
    IF fn \in KvtValidators
        THEN validate_multi_author_message_hash_chain(m, overflow_checks)
        ELSE validate_message_value(m, overflow_checks)

\* C9: a message that passes single-message validation (the structural
\* checks and, for a KVT, the key check) is accepted by the out-of-order
\* validators against every predecessor that decodes and has the same
\* author, and without a predecessor, whatever its sequence and previous.
C9_OooChecksAuthorOnly ==
    (Returned /\ fn \in OooValidators /\ Single(M) = Ok) =>
        IF IsSome(prev)
            THEN (Decodes(P) /\ M.value.author = P.value.author) => Result = Ok
            ELSE Result = Ok

C9_AcceptedOutOfOrder ==
    /\ Returned /\ fn = "validate_ooo_message_hash_chain" /\ IsSome(prev)
    /\ Decodes(P) /\ Decodes(M)
    /\ M.value.sequence <= P.value.sequence
    /\ M.value.previous # P.key
    /\ Result = Ok

\* ------------------------------------------------------------------ batch properties
ChainDrivers ==
    {"par_validate_message_hash_chain_of_feed",
     "par_validate_message_value_hash_chain_of_feed"}

\* the single-message validator a driver applies
SingleOf(driver) ==
    CASE driver = "par_validate_message_hash_chain_of_feed" ->
             "validate_message_hash_chain"
      [] driver = "par_validate_ooo_message_hash_chain_of_feed" ->
             "validate_ooo_message_hash_chain"
      [] driver = "par_validate_multi_author_message_hash_chain_of_feed" ->
             "validate_multi_author_message_hash_chain"
      [] driver = "par_validate_message_value_hash_chain_of_feed" ->
             "validate_message_value_hash_chain"
      [] driver = "par_validate_ooo_message_value_hash_chain_of_feed" ->
             "validate_ooo_message_value_hash_chain"
      [] driver = "par_validate_message_value" -> "validate_message_value"

\* sequential validation of index i of a slice: against its left neighbour,
\* or against the external predecessor (None where the driver takes none)
SequentialAt(ms, i) ==
    Validate(SingleOf(fn), ms[i],
             IF i = 1 THEN prev ELSE Some(ms[i - 1]), overflow_checks)
SequentialOk(ms) == \A i \in 1..Len(ms) : SequentialAt(ms, i) = Ok

BatchReturned == fn \in Drivers /\ Returned

\* C6: a chain batch driver returns Ok if and only if the single-message
\* chain validator returns Ok for the first message against the external
\* predecessor and for every later message against its left neighbour, for
\* every slice (the empty one included) and every schedule of the workers.
C6_BatchEqualsSequential ==
    (BatchReturned /\ fn \in ChainDrivers) =>
        (Result = Ok <=> SequentialOk(messages))

C6_RejectedWithIndexSkipped ==
    /\ BatchReturned /\ fn \in ChainDrivers
    /\ Result # Ok
    /\ \E i \in Indices(status) : status[i] = Skipped /\ SequentialAt(messages, i) = Ok

\* C7: an error returned by a batch driver is the error the single-message
\* validator returns for one of the indices of the slice.
C7_ReturnedErrorIsOneOfTheBatch ==
    (BatchReturned /\ IsError(Result)) =>
        \E i \in Indices(status) : SequentialAt(messages, i) = Result

\* C7 is reached with the error of an index that is not the lowest failing
\* one: a lower index fails with another error and was left unvalidated
C7_HigherIndexReturned ==
    /\ BatchReturned /\ IsError(Result)
    /\ \E i, j \in Indices(status) :
           /\ i < j
           /\ status[j] = Result
           /\ status[i] = Skipped
           /\ IsError(SequentialAt(messages, i))
           /\ SequentialAt(messages, i) # Result

\* C8 (as claimed, the part a finite run decides): a batch call in which a
\* worker has produced an error returns an error.
C8_ProducedErrorIsReturned ==
    (BatchReturned /\ Failed(status) # {}) => IsError(Result)

\* C8, termination: under fair scheduling every batch call ends
C8_Terminates == (fn \in Drivers) ~> Returned

\* C8, the rest: a call in which no index fails returns Ok after every index
\* was validated, and an error that was produced is never turned into Ok
C8_OkAfterAllValidated ==
    BatchReturned =>
        /\ SequentialOk(messages)
               => (Result = Ok /\ \A i \in Indices(status) : status[i] = Ok)
        /\ Failed(status) # {} => Result # Ok

\* the permutations of a slice
Perms(n) == {f \in [1..n -> 1..n] : \A i, j \in 1..n : f[i] = f[j] => i = j}
Permuted(ms, f) == [i \in 1..Len(ms) |-> ms[f[i]]]

\* C10: the out-of-order single-author batch returns Ok if and only if every
\* message passes validate_multi_author_message_hash_chain by itself and all
\* messages have the same author; and sequential validation of every
\* permutation of the slice has the same outcome as the batch.
C10_OooBatchOrderInsensitive ==
    (BatchReturned /\ fn = "par_validate_ooo_message_hash_chain_of_feed") =>
        /\ Result = Ok <=>
               /\ \A i \in 1..Len(messages) :
                      validate_multi_author_message_hash_chain(
                          messages[i], overflow_checks) = Ok
               /\ \A i, j \in 1..Len(messages) :
                      messages[i].value.author = messages[j].value.author
        /\ \A f \in Perms(Len(messages)) :
               Result = Ok <=> SequentialOk(Permuted(messages, f))

C10_AcceptedOutOfOrder ==
    /\ BatchReturned /\ fn = "par_validate_ooo_message_hash_chain_of_feed"
    /\ Result = Ok
    /\ Len(messages) >= 2
    /\ messages[1].value.sequence > messages[2].value.sequence

\* ------------------------------------------------------------------ the pre-image of the hash
\* a text is a sequence of Unicode scalars: A, U+007F, U+0080, e acute,
\* U+0141 (low byte that of A), the euro sign, U+FFFF, U+10000, U+1F600
ScalarSamples == {65, 127, 128, 233, 321, 8364, 65535, 65536, 128512}
Texts == UNION {[1..k -> ScalarSamples] : k \in 0..MaxText}

\* the UTF-8 bytes of a scalar and of a text (the bytes of a &str)
Utf8OfScalar(c) ==
    IF c < 128 THEN <<c>>
    ELSE IF c < 2048 THEN <<192 + (c \div 64), 128 + (c % 64)>>
    ELSE IF c < 65536
        THEN <<224 + (c \div 4096), 128 + ((c \div 64) % 64), 128 + (c % 64)>>
    ELSE <<240 + (c \div 262144), 128 + ((c \div 4096) % 64),
           128 + ((c \div 64) % 64), 128 + (c % 64)>>
RECURSIVE as_bytes(_)
as_bytes(text) ==
    IF text = <<>> THEN <<>> ELSE Utf8OfScalar(Head(text)) \o as_bytes(Tail(text))

\* std::str::from_utf8(bytes).unwrap(), for bytes that are UTF-8
RECURSIVE from_utf8(_)
from_utf8(bytes) ==
    IF bytes = <<>> THEN <<>>
    ELSE LET b == bytes[1]
         IN  IF b < 128 THEN <<b>> \o from_utf8(SubSeq(bytes, 2, Len(bytes)))
             ELSE IF b < 224
                 THEN <<(b - 192) * 64 + (bytes[2] - 128)>>
                      \o from_utf8(SubSeq(bytes, 3, Len(bytes)))
             ELSE IF b < 240
                 THEN <<(b - 224) * 4096 + (bytes[2] - 128) * 64 + (bytes[3] - 128)>>
                      \o from_utf8(SubSeq(bytes, 4, Len(bytes)))
             ELSE <<(b - 240) * 262144 + (bytes[2] - 128) * 4096
                        + (bytes[3] - 128) * 64 + (bytes[4] - 128)>>
                  \o from_utf8(SubSeq(bytes, 5, Len(bytes)))

\* str::encode_utf16: one code unit for a scalar up to U+FFFF, a surrogate
\* pair for a scalar above
RECURSIVE encode_utf16(_)
encode_utf16(text) ==
    IF text = <<>> THEN <<>>
    ELSE LET c == Head(text)
         IN  (IF c < 65536 THEN <<c>>
              ELSE <<55296 + ((c - 65536) \div 1024), 56320 + ((c - 65536) % 1024)>>)
             \o encode_utf16(Tail(text))

\* the serializer keeping the high byte of every code unit
node_buffer_binary_serializer_high_byte(text) ==
    LET words == encode_utf16(text)
    IN  [i \in 1..Len(words) |-> words[i] \div 256]

\* utils::node_buffer_binary_serializer: (word & 0xFF) as u8 of every code unit
node_buffer_binary_serializer(text) ==
    LET words == encode_utf16(text)
    IN  [i \in 1..Len(words) |-> words[i] % 256]

\* the hash taken over the bytes as they are
multihash_of_latin_bytes_utf8(bytes) == <<"%", bytes>>

\* utils::multihash_from_bytes on UTF-8 bytes: the digest of
\* value_bytes_latin, the digest being named by what was digested
multihash_of_latin_bytes(bytes) ==
    LET value_bytes_latin == node_buffer_binary_serializer(from_utf8(bytes))
    IN  <<"%", value_bytes_latin>>

InitEncoding ==
    /\ fn = "none"
    /\ msg \in Texts
    /\ prev = None
    /\ overflow_checks = FALSE
    /\ res = None
    /\ messages = <<>>
    /\ status = <<>>
    /\ full = FALSE

NodeBufferBinarySerializer ==
    /\ fn = "none"
    /\ fn' = "node_buffer_binary_serializer"
    /\ res' = Some(node_buffer_binary_serializer(msg))
    /\ UNCHANGED <<msg, prev, overflow_checks, batch_vars>>

\* multihash_from_bytes called with the bytes of the text msg
MultihashFromBytes ==
    /\ fn = "none"
    /\ fn' = "multihash_from_bytes"
    /\ res' = Some(multihash_of_latin_bytes(as_bytes(msg)))
    /\ UNCHANGED <<msg, prev, overflow_checks, batch_vars>>

NextEncoding ==
    \/ NodeBufferBinarySerializer
    \/ MultihashFromBytes

SpecEncoding == InitEncoding /\ [][NextEncoding]_vars

\* ------------------------------------------------------------------ properties of the text
\* the value of the message is written with exactly the seven keys in the
\* order previous, author and sequence in either order, timestamp, hash,
\* content, signature
KeysInOrder(b) ==
    KeysOf(b.value.layout) \in
        {<<"previous", "author", "sequence", "timestamp", "hash", "content", "signature">>,
         <<"previous", "sequence", "author", "timestamp", "hash", "content", "signature">>}
\* the predecessor of the call, if there is one, decodes
PrevDecodes == IsSome(prev) => Decodes(P)

\* C11 (as claimed): every accepted message has the keys of its value in the
\* order previous, author and sequence in either order, timestamp, hash,
\* content, signature; a message that decodes and has them in another order
\* is rejected with InvalidMessageValueOrder, whatever its content and the
\* keys of the KVT around the value.
C11_FieldOrderInvariant ==
    (Returned /\ M.form # "garbage") =>
        /\ Result = Ok => KeysInOrder(M)
        /\ (PrevDecodes /\ Decodes(M) /\ ~KeysInOrder(M))
               => Result = InvalidMessageValueOrder

\* a value that carries hash before timestamp is accepted
C11_WrongOrderAccepted ==
    /\ Returned /\ Result = Ok
    /\ M.form # "garbage" /\ M.value.layout = "hashFirst"

\* C11, what the code does keep: a message whose bytes hold no other quoted
\* hash or content than the keys of its value is accepted only with the keys
\* in order, and is rejected with InvalidMessageValueOrder otherwise
C11_OrderWithoutDecoys ==
    (Returned /\ M.form # "garbage" /\ M.value.content # "decoy"
              /\ (M.form = "kvt" => M.top # "decoy")) =>
        /\ Result = Ok => KeysInOrder(M)
        /\ (PrevDecodes /\ Decodes(M) /\ ~KeysInOrder(M))
               => Result = InvalidMessageValueOrder

HasUnknownKey(b) ==
    \E i \in 1..Len(KeysOf(b.value.layout)) : KeysOf(b.value.layout)[i] \notin ValueFields

\* C12: a message whose value has a top-level key that is no field of the
\* value (its predecessor, if any, decoding) is rejected with InvalidMessage
\* by every validator, whatever its key order, hash name, content, length,
\* sequence and previous.
C12_UnknownKeyIsInvalidMessage ==
    (Returned /\ M.form # "garbage" /\ HasUnknownKey(M) /\ PrevDecodes)
        => Result = InvalidMessage

\* reached by a message that also breaks the order, the hash name, the
\* base64 rule and the sequence rule
C12_UnknownKeyBeforeOtherChecks ==
    /\ Returned /\ fn = "validate_message_hash_chain"
    /\ Result = InvalidMessage
    /\ IsSome(prev) /\ Decodes(P)
    /\ M.form # "garbage" /\ M.value.layout = "extraHashFirst"
    /\ M.value.hash = "other" /\ M.value.content = "badstring"
    /\ M.value.sequence = 1

\* C13 (as claimed): a KVT validator accepts a message only if its
\* top-level keys are exactly key, value and timestamp.
C13_ExactTopLevelKeys ==
    (Returned /\ fn \in KvtValidators /\ Result = Ok) => M.top = "kvt"

\* a KVT without the top-level timestamp is accepted
C13_AcceptedWithoutTimestamp ==
    /\ Returned /\ fn \in KvtValidators
    /\ Result = Ok
    /\ M.top = "kv"

HasHashKey(b) ==
    \E i \in 1..Len(KeysOf(b.value.layout)) : KeysOf(b.value.layout)[i] = "hash"

\* C14: every accepted message has a hash key with the value "sha256"; a
\* message without a hash key is rejected with InvalidMessage; a message
\* that decodes, has its keys in order and names another hash is rejected
\* with InvalidHashFunction, in every mode and whatever its content, length,
\* sequence and previous (the predecessor, if any, decoding).
C14_HashIsSha256 ==
    (Returned /\ M.form # "garbage") =>
        /\ Result = Ok => (HasHashKey(M) /\ M.value.hash = "sha256")
        /\ (PrevDecodes /\ ~HasHashKey(M)) => Result = InvalidMessage
        /\ (PrevDecodes /\ Decodes(M) /\ KeysInOrder(M) /\ M.value.hash # "sha256")
               => Result = InvalidHashFunction

\* another hash name is reported before a bad base64 content and a wrong
\* first sequence
C14_OtherHashReported ==
    /\ Returned /\ fn = "validate_message_value_hash_chain"
    /\ ~IsSome(prev)
    /\ Result = InvalidHashFunction
    /\ M.value.content = "badstring" /\ M.value.sequence = 2

\* ------------------------------------------------------------------ properties of is_canonical_base64
\* the first n characters are groups of four base64 characters, the last
\* group possibly padded: X[AQgw]== or XX[AEIMQUYcgkosw048]=
CanonicalBase64(s, n) ==
    /\ n % 4 = 0
    /\ \A k \in 1..n :
           \/ Base64Char(s[k])
           \/ s[k] = "=" /\ k > n - 2
    /\ (n >= 4 /\ s[n] = "=") =>
           IF s[n - 1] = "=" THEN Base64Char(s[n - 3]) /\ PadOne(s[n - 2])
           ELSE Base64Char(s[n - 3]) /\ Base64Char(s[n - 2]) /\ PadTwo(s[n - 1])
    /\ (n >= 4 /\ s[n - 1] = "=") => s[n] = "="
\* canonical base64, then the four characters .box, then an annotation
\* (one line)
CanonicalDotBox(s) ==
    \E n \in 0..Len(s) :
        /\ CanonicalBase64(s, n)
        /\ n + 4 <= Len(s)
        /\ SubSeq(s, n + 1, n + 4) = <<".", "b", "o", "x">>
        /\ \A k \in (n + 5)..Len(s) : s[k] # "\n"

\* C15 (as claimed): a string content is accepted by is_canonical_base64 if
\* and only if it is canonical base64 immediately followed by the literal
\* characters .box and a trailing annotation.
C15_CanonicalBase64ThenDotBox ==
    (Returned /\ fn = "is_canonical_base64") =>
        (Result = TRUE <=> CanonicalDotBox(msg))

\* a string with another character than a dot before box is accepted
C15_AcceptedWithoutDot ==
    /\ Returned /\ fn = "is_canonical_base64"
    /\ Result = TRUE
    /\ msg = <<"A", "A", "A", "A", "!", "b", "o", "x">>

\* C15, what the code does keep: an accepted string is canonical base64
\* followed by one character, box and an annotation, and every string that
\* is canonical base64 followed by .box and an annotation is accepted
C15_CanonicalBase64ThenAnyBox ==
    (Returned /\ fn = "is_canonical_base64") =>
        /\ CanonicalDotBox(msg) => Result = TRUE
        /\ Result = TRUE =>
               \E n \in 0..Len(msg) :
                   /\ CanonicalBase64(msg, n)
                   /\ n + 4 <= Len(msg)
                   /\ SubSeq(msg, n + 2, n + 4) = <<"b", "o", "x">>

\* ------------------------------------------------------------------ properties of the length
LongContents == {"bigobject", "edge", "over", "astralEdge", "astralOver"}
\* the message with a short object in the place of a long one (and, for a
\* KVT whose key is the hash of its value, the key of the new value)
Shortened(b) ==
    IF b.form = "garbage" \/ b.value.content \notin LongContents THEN b
    ELSE LET v == [b.value EXCEPT !.content = "object"]
         IN  IF b.form = "kvt"
                 THEN [b EXCEPT !.value = v,
                                !.key = IF b.key = ValueHash(b.value)
                                            THEN ValueHash(v) ELSE b.key]
                 ELSE [b EXCEPT !.value = v]
\* UTF-16 code units of the pretty text of the typed value: two for every
\* scalar above U+FFFF, one for every other
PrettyUnits(b) ==
    PrettyScalars(b.value).bmp + 2 * PrettyScalars(b.value).astral

Utf16OfScalar(c) ==
    IF c <= 65535 THEN <<c>>
    ELSE <<55296 + ((c - 65536) \div 1024), 56320 + ((c - 65536) % 1024)>>
RECURSIVE LowBytes(_)
LowBytes(text) ==
    IF text = <<>> THEN <<>>
    ELSE [i \in 1..Len(Utf16OfScalar(Head(text))) |-> Utf16OfScalar(Head(text))[i] % 256]
         \o LowBytes(Tail(text))
RECURSIVE Utf16Length(_)
Utf16Length(text) ==
    IF text = <<>> THEN 0
    ELSE (IF Head(text) > 65535 THEN 2 ELSE 1) + Utf16Length(Tail(text))

\* C17: node_buffer_binary_serializer gives one byte for every UTF-16 code
\* unit of the text, in order, the code unit modulo 256: as many bytes as the
\* text has UTF-16 code units, c mod 256 for a scalar up to U+FFFF, the low
\* bytes of the high and the low surrogate for a scalar above.
C17_LowByteOfEveryCodeUnit ==
    (Returned /\ fn = "node_buffer_binary_serializer") =>
        /\ Len(Result) = Utf16Length(msg)
        /\ Result = LowBytes(msg)

\* U+0141 gives the byte of A, U+1F600 the bytes 0x3D and 0x00
C17_SurrogatesTruncated ==
    /\ Returned /\ fn = "node_buffer_binary_serializer"
    /\ msg = <<321, 128512>>
    /\ Result = <<65, 61, 0>>

\* C18: the bytes multihash_from_bytes digests are the UTF-8 bytes of the
\* text if and only if every character of the text is in U+0000..U+007F, so
\* the hash is the hash of the UTF-8 bytes for those texts only.
C18_Utf8OnlyForAscii ==
    (Returned /\ fn = "multihash_from_bytes") =>
        /\ Result[2] = as_bytes(msg) <=> \A i \in 1..Len(msg) : msg[i] <= 127
        /\ Result = <<"%", as_bytes(msg)>> <=> \A i \in 1..Len(msg) : msg[i] <= 127

\* e acute: one byte 0xE9 is digested, UTF-8 has the two bytes 0xC3 0xA9
C18_NonAsciiDiffers ==
    /\ Returned /\ fn = "multihash_from_bytes"
    /\ msg = <<65, 233>>
    /\ Result[2] = <<65, 233>>
    /\ as_bytes(msg) = <<65, 195, 169>>

\* ------------------------------------------------------------------ single and chain validation
\* C19: for a KVT message whose value has sequence 1 and previous null,
\* validate_multi_author_message_hash_chain(M) and
\* validate_message_hash_chain(M, None) return the same: both Ok, or both the
\* same error.
C19_SingleEqualsChainWithoutPredecessor ==
    (/\ Returned
     /\ fn \in {"validate_multi_author_message_hash_chain", "validate_message_hash_chain"}
     /\ ~IsSome(prev)
     /\ M.form = "kvt" /\ M.value.sequence = 1 /\ M.value.previous = Null) =>
        /\ Result = validate_multi_author_message_hash_chain(M, overflow_checks)
        /\ Result = validate_message_hash_chain(M, None, overflow_checks)

\* both reject a first message with a wrong key and a bad base64 content
\* with InvalidBase64
C19_SameErrorForBoth ==
    /\ Returned /\ fn = "validate_message_hash_chain" /\ ~IsSome(prev)
    /\ M.form = "kvt" /\ M.value.sequence = 1 /\ M.value.previous = Null
    /\ M.key = Bogus /\ M.value.content = "badstring"
    /\ Result = InvalidBase64
    /\ validate_multi_author_message_hash_chain(M, overflow_checks) = InvalidBase64

\* ------------------------------------------------------------------ order of the checks
\* the errors of the structural rules a message violates
StructuralViolations(b) ==
    (IF KeysInOrder(b) THEN {} ELSE {"InvalidMessageValueOrder"})
    \cup (IF b.value.hash = "sha256" THEN {} ELSE {"InvalidHashFunction"})
    \cup (IF b.value.content = "badstring" THEN {"InvalidBase64"} ELSE {})
EarlyStructuralTags ==
    {"InvalidMessageValueOrder", "InvalidHashFunction", "InvalidBase64"}
LengthViolations(b) ==
    IF PrettyUnits(b) > LengthLimit THEN {"InvalidMessageValueLength"} ELSE {}
\* the message violates a chain rule against the predecessor of the call, or
\* a first-message rule if there is none
ChainViolated ==
    IF IsSome(prev) THEN FirstViolated(M, P) # "none"
    ELSE M.value.sequence # 1 \/ M.value.previous # Null
ChainTags ==
    {"AuthorsDidNotMatch", "InvalidSequenceNumber", "PreviousWasNull", "ForkedFeed",
     "FirstMessageDidNotHaveSequenceOfOne", "FirstMessageDidNotHavePreviousOfNull"}
\* a call of a chain validator whose inputs decode, the predecessor having
\* a sequence below the largest
ChainCallDecoded ==
    /\ Returned /\ fn \in ChainValidators
    /\ M.form # "garbage" /\ Decodes(M)
    /\ IsSome(prev) => (Decodes(P) /\ P.value.sequence < MaxU64)

CompactText(v) == ValueText(v, 2)
PrettyText(v) == ValueText(v, 0)
\* the same KVT written in another whitespace
Rewritten(b, ws) == [b EXCEPT !.ws = ws]
WhitespaceIndependent ==
    \A ws \in KvtWhitespaces :
        Validate(fn, Rewritten(M, ws), prev, overflow_checks) = Result

\* C21 (as claimed): in the KVT modes the key is compared with the hash of
\* the value written in compact form (no insignificant whitespace), and the
\* result does not depend on the whitespace of the input.
C21_HashOfCompactValue ==
    (Returned /\ fn \in KvtValidators /\ M.form = "kvt") =>
        /\ Result = Ok => M.key = multihash_from_bytes(CompactText(M.value))
        /\ Result.tag = "ActualHashDidNotMatchKey"
               => Result.actual_hash = multihash_from_bytes(CompactText(M.value))
        /\ WhitespaceIndependent

\* C21 (amended): in the KVT modes the key is compared with the hash of the
\* value written again by the serializer with compact = false (its own
\* whitespace, not the compact form), and the result does not depend on the
\* whitespace of the input.
C21_HashOfReserializedValue ==
    (Returned /\ fn \in KvtValidators /\ M.form = "kvt") =>
        /\ Result = Ok => M.key = multihash_from_bytes(PrettyText(M.value))
        /\ Result.tag = "ActualHashDidNotMatchKey"
               => Result.actual_hash = multihash_from_bytes(PrettyText(M.value))
        /\ WhitespaceIndependent

\* a message written without whitespace is accepted with a key that is
\* neither the hash of its bytes as written nor of the compact form
C21_AcceptedInOtherWhitespace ==
    /\ Returned /\ fn = "validate_message_hash_chain" /\ Result = Ok
    /\ M.ws = 2
    /\ M.key = multihash_from_bytes(PrettyText(M.value))
    /\ M.key # multihash_from_bytes(CompactText(M.value))

\* ------------------------------------------------------------------ the key of the predecessor
\* C22: validate_message_value_hash_chain(V, Some(P)) returns Ok only if
\* V.previous is the hash of the bytes of P as they were given, so of two
\* predecessors that decode to the same value and differ in their bytes at
\* most one is accepted for the same V; validate_message_hash_chain returns
\* Ok only if previous is the key member of the predecessor.
C22_PredecessorKeyFromBytes ==
    (ChainCallWithPrev /\ Result = Ok) =>
        IF fn = "validate_message_value_hash_chain"
            THEN /\ M.value.previous = multihash_from_bytes(RawText(P))
                 /\ \A p2 \in PrevValueBytes :
                        (p2.value = P.value /\ p2 # P) =>
                            validate_message_value_hash_chain(
                                M, Some(p2), overflow_checks) # Ok
            ELSE M.value.previous = P.key

\* a value is accepted after a predecessor that is not written in the
\* whitespace of the serializer, naming the hash of the bytes as given
C22_AcceptedAfterOtherWhitespace ==
    /\ ChainCallWithPrev /\ fn = "validate_message_value_hash_chain"
    /\ Result = Ok
    /\ P.ws = 1
    /\ M.value.previous # multihash_from_bytes(to_vec(P.value))

\* ------------------------------------------------------------------ adjacency
\* the slice holds the messages 1..n of the feed, in some order
ArrangementOfFeed(ms, n) ==
    /\ Len(ms) = n
    /\ \A k \in 1..n : \E i \in 1..n : ms[i] = FeedKVT(k)
Ascending(ms) == \A i \in 1..Len(ms) : ms[i] = FeedKVT(i)
\* the slice holds messages of the feed in ascending order, and leaves one
\* out between two it holds
GappedSubSlice(ms) ==
    /\ Len(ms) >= 2
    /\ \A i \in 1..Len(ms) : \E k \in 1..MaxBatch : ms[i] = FeedKVT(k)
    /\ \A i \in 1..(Len(ms) - 1) : ms[i].value.sequence < ms[i + 1].value.sequence
    /\ \E i \in 1..(Len(ms) - 1) : ms[i].value.sequence + 1 < ms[i + 1].value.sequence
LinkTags ==
    {"InvalidSequenceNumber", "ForkedFeed", "PreviousWasNull",
     "FirstMessageDidNotHaveSequenceOfOne", "FirstMessageDidNotHavePreviousOfNull"}
\* the feed is shorter than the largest sequence number, as every slice
\* that fits in memory is (in a build without overflow checks the feed may
\* be of any length)
FeedBelowMax(ms) ==
    overflow_checks => \A i \in 1..Len(ms) : ms[i].value.sequence < MaxU64

\* C23: par_validate_message_hash_chain_of_feed without an external
\* predecessor returns Ok for the messages 1..n (n >= 2) of a valid feed in
\* ascending order, and a sequence or link error for every other order of
\* them and for every ascending sub-slice that leaves out a message between
\* two it holds.
C23_AdjacencyPresumesAscendingOrder ==
    (/\ BatchReturned /\ fn = "par_validate_message_hash_chain_of_feed"
     /\ ~IsSome(prev) /\ Len(messages) >= 2
     /\ \A i \in 1..Len(messages) : messages[i].form = "kvt"
     /\ FeedBelowMax(messages)) =>
        /\ Ascending(messages) => Result = Ok
        /\ (ArrangementOfFeed(messages, Len(messages)) /\ ~Ascending(messages))
               => Result.tag \in LinkTags
        /\ GappedSubSlice(messages) => Result.tag \in LinkTags

\* the first and the third message of the feed, the second left out, are
\* rejected for the sequence of the third
C23_GapRejected ==
    /\ BatchReturned /\ fn = "par_validate_message_hash_chain_of_feed"
    /\ ~IsSome(prev)
    /\ messages = <<FeedKVT(1), FeedKVT(3)>>
    /\ Result = InvalidSequenceNumber(3, 2)

\* ------------------------------------------------------------------ the key check is the last check
\* a call of validate_message_hash_chain whose inputs decode
FullChainCallDecoded ==
    /\ Returned /\ fn = "validate_message_hash_chain"
    /\ Decodes(M) /\ PrevDecodes
KeyMismatch == RecomputedHash(M) # M.key
\* the check of the key comes after the chain checks, and
\* ActualHashDidNotMatchKey is returned only for a message that is accepted
\* with the hash of its value as its key
KeyCheckAfterChainChecks ==
    /\ (ChainViolated /\ KeyMismatch /\ StructuralChecks(M.value, M) = Ok)
           => Result.tag \in ChainTags
    /\ ChainViolated => Result.tag # "ActualHashDidNotMatchKey"
    /\ Result.tag = "ActualHashDidNotMatchKey" =>
           /\ KeyMismatch
           /\ Validate(fn, WithKey(M, RecomputedHash(M)), prev, overflow_checks) = Ok

\* C24 (as claimed): in full-chain KVT mode a message that violates a chain
\* rule (author, sequence, previous, fork, first-message) and whose key is not
\* the hash of its value is reported with the chain error, never with
\* ActualHashDidNotMatchKey, which is returned only when every structural
\* and chain check has passed.
C24_KeyCheckIsLast == FullChainCallDecoded => KeyCheckAfterChainChecks

\* C24 away from the overflow of the sequence counter
C24_BelowMaxSequence ==
    (FullChainCallDecoded /\ (IsSome(prev) => P.value.sequence < MaxU64))
        => KeyCheckAfterChainChecks

\* after a predecessor with the largest sequence number a message with
\* sequence 0 and a wrong key is reported for its key
C24_KeyErrorAfterWrap ==
    /\ FullChainCallDecoded /\ IsSome(prev)
    /\ P.value.sequence = MaxU64 /\ M.value.sequence = 0
    /\ Result.tag = "ActualHashDidNotMatchKey"

\* ------------------------------------------------------------------ decode failures
\* the message of the call decodes (bytes that are no JSON do not)
MsgDecodes == M.form # "garbage" /\ Decodes(M)

\* C25: a validator given a predecessor returns InvalidPreviousMessage if
\* and only if the predecessor does not decode, and InvalidMessage only if
\* the message does not decode; if neither decodes it returns
\* InvalidPreviousMessage; a validator given no predecessor never returns
\* InvalidPreviousMessage.
C25_DecodeFailuresNameTheInput ==
    Returned =>
        /\ (fn \in ChainValidators \cup OooValidators /\ IsSome(prev)) =>
               /\ Result = InvalidPreviousMessage <=> ~(P.form # "garbage" /\ Decodes(P))
               /\ (~(P.form # "garbage" /\ Decodes(P)) /\ ~MsgDecodes)
                      => Result = InvalidPreviousMessage
        /\ Result = InvalidMessage => ~MsgDecodes
        /\ ~IsSome(prev) => Result # InvalidPreviousMessage
        /\ (~IsSome(prev) /\ ~MsgDecodes) => Result = InvalidMessage

\* neither decodes: the predecessor for a key that is no field of its
\* value, the message for being no JSON
C25_BothUndecodable ==
    /\ Returned /\ fn = "validate_message_hash_chain" /\ IsSome(prev)
    /\ P.form = "kvt" /\ HasUnknownKey(P)
    /\ M = Garbage
    /\ Result = InvalidPreviousMessage

\* ------------------------------------------------------------------ the largest sequence number
\* C26 (as claimed): the expected sequence is P.sequence + 1 without
\* wrap-around: after a predecessor whose sequence is the largest u64 no
\* message is accepted, a message with sequence 0 that passes the earlier
\* checks is rejected with InvalidSequenceNumber, and the call returns a
\* result and does not panic.
C26_NoWrapAround ==
    (ChainCallWithPrev /\ Decodes(P) /\ P.value.sequence = MaxU64) =>
        /\ Result # Ok
        /\ Result # Abort
        /\ ( /\ MsgDecodes /\ M.value.sequence = 0
             /\ StructuralChecks(M.value, M) = Ok
             /\ M.value.author = P.value.author )
               => Result.tag = "InvalidSequenceNumber"

\* with overflow checks the call panics on the successor of the largest
\* sequence number
C26_PanicAtMaxSequence ==
    /\ ChainCallWithPrev /\ overflow_checks
    /\ Decodes(P) /\ P.value.sequence = MaxU64
    /\ MsgDecodes /\ M.value.sequence = 0
    /\ Result = Abort

\* ------------------------------------------------------------------ the predecessor is trusted
\* predecessors to compare with: those of the calls, and the first message
\* of the feed with its key kept and a value that is too long
OtherPredecessors ==
    PrevKVTs \cup {KVT(FirstKVT.key, [AnyValue EXCEPT !.content = "bigobject"], 0)}
SameAuthorSequenceKey(p1, p2) ==
    /\ p1.value.author = p2.value.author
    /\ p1.value.sequence = p2.value.sequence
    /\ p1.key = p2.key
\* the predecessor by itself is not a valid message
PredecessorInvalid(p) == validate_multi_author_message_hash_chain(p, overflow_checks) # Ok

AssertKVTs == {FeedKVT(1), FeedKVT(2), JsonArray, ValueBytes(FeedValue(1), 0)}
AssertValueBytes ==
    {ValueBytes(FeedValue(1), 0), ValueBytes(FeedValue(2), 0), JsonArray, FeedKVT(1)}
WithoutPrevious ==
    {"validate_multi_author_message_hash_chain", "validate_message_value",
     "par_validate_ooo_message_hash_chain_of_feed",
     "par_validate_multi_author_message_hash_chain_of_feed",
     "par_validate_message_value"}
OptOf(f, U) == IF f \in WithoutPrevious THEN {None} ELSE {None} \cup {Some(b) : b \in U}
KvtDrivers ==
    {"par_validate_message_hash_chain_of_feed",
     "par_validate_ooo_message_hash_chain_of_feed",
     "par_validate_multi_author_message_hash_chain_of_feed"}

\* a call of one of the three validators of message.rs
AssertValidateKvt ==
    /\ fn = "none"
    /\ \E f \in KvtValidators : \E p \in OptOf(f, AssertKVTs \cup {Garbage}) :
       \E m \in AssertKVTs \cup {Garbage} :
           Return(f, m, p, Validate(f, m, p, overflow_checks))

\* a call of one of the three validators of message_value.rs
AssertValidateValue ==
    /\ fn = "none"
    /\ \E f \in {"validate_message_value_hash_chain",
                  "validate_ooo_message_value_hash_chain", "validate_message_value"} :
       \E p \in OptOf(f, AssertValueBytes \cup {Garbage}) :
       \E m \in AssertValueBytes \cup {Garbage} :
           Return(f, m, p, Validate(f, m, p, overflow_checks))

\* a call of one of the three batch drivers of message.rs
AssertParValidateKvt ==
    /\ fn = "none"
    /\ \E driver \in KvtDrivers : \E ms \in SlicesOf(AssertKVTs) :
       \E previous \in OptOf(driver, {FeedKVT(1), JsonArray}) :
           Start(driver, ms, previous)

\* a call of one of the three batch drivers of message_value.rs
AssertParValidateValue ==
    /\ fn = "none"
    /\ \E driver \in Drivers \ KvtDrivers : \E ms \in SlicesOf(AssertValueBytes) :
       \E previous \in OptOf(driver, {ValueBytes(FeedValue(1), 0), JsonArray}) :
           Start(driver, ms, previous)

NextAssert ==
    \/ AssertValidateKvt
    \/ AssertValidateValue
    \/ AssertParValidateKvt
    \/ AssertParValidateValue
    \/ \E i \in Indices(status) : Worker(i)
    \/ \E i \in Indices(status) : Skip(i)
    \/ DriverReturn

SpecAssert == Init /\ [][NextAssert]_vars

\* the result of a failed expect, of the panic!() arm, or of a generic tree
\* without a value member
AssertionFailed(r) == r \in {ExpectFailed, PanicArm, InvalidMessageNoValue}

\* C28: no call of a validator, by a caller or by a worker of a batch
\* driver, ends in the failed expect on previous_key, in the panic!() arm of
\* the generic re-parse or in InvalidMessageNoValue.
C28_AssertionsNeverFail ==
    /\ (Returned /\ fn \notin Drivers) => ~AssertionFailed(Result)
    /\ \A i \in Indices(status) : ~AssertionFailed(status[i])

\* a batch in which the chain checks read the key of the left neighbour, and
\* JSON that is no object is stopped by the typed decode
C28_NonObjectStoppedByDecode ==
    /\ BatchReturned /\ fn = "par_validate_message_hash_chain_of_feed"
    /\ messages = <<FeedKVT(1), FeedKVT(2), JsonArray>>
    /\ status = <<Ok, Ok, InvalidMessage>>

\* ------------------------------------------------------------------ strictness of the modes
\* the called validator, the out-of-order validator and the single-message
\* validator of the same form, on the inputs of the call
OooResult ==
    IF fn \in KvtValidators
        THEN validate_ooo_message_hash_chain(M, prev, overflow_checks)
        ELSE validate_ooo_message_value_hash_chain(M, prev, overflow_checks)
OptPredecessors == IF fn \in KvtValidators THEN OptPrevKVTs ELSE OptPrevValueBytes
ChainOf(m, p) ==
    IF fn \in KvtValidators
        THEN validate_message_hash_chain(m, p, overflow_checks)
        ELSE validate_message_value_hash_chain(m, p, overflow_checks)
OooOf(m, p) ==
    IF fn \in KvtValidators
        THEN validate_ooo_message_hash_chain(m, p, overflow_checks)
        ELSE validate_ooo_message_value_hash_chain(m, p, overflow_checks)

\* C29: a message accepted by a chain validator with a predecessor (or
\* none) is accepted by the out-of-order validator with the same, and a
\* message accepted by an out-of-order validator is accepted by the
\* single-message validator; a message the single-message validator rejects
\* is accepted by neither of the others, whatever the predecessor.
C29_ModesOrderedByStrictness ==
    Returned =>
        /\ (fn \in ChainValidators /\ Result = Ok)
               => (OooResult = Ok /\ Single(M) = Ok)
        /\ (fn \in OooValidators /\ Result = Ok) => Single(M) = Ok
        /\ ( /\ fn \in {"validate_multi_author_message_hash_chain", "validate_message_value"}
             /\ Result # Ok )
               => \A p \in OptPredecessors :
                      ChainOf(M, p) # Ok /\ OooOf(M, p) # Ok

\* a message is accepted out of order that the chain validator rejects with
\* the same predecessor
C29_OooAcceptsMore ==
    /\ Returned /\ fn = "validate_ooo_message_hash_chain" /\ IsSome(prev)
    /\ Result = Ok
    /\ Single(M) = Ok
    /\ validate_message_hash_chain(M, prev, overflow_checks).tag = "InvalidSequenceNumber"

\* ------------------------------------------------------------------ an accepted feed
\* messages of the batches: the first three messages of the feed; the
\* first one under a key that is not its hash, and a second message that
\* names that key as previous; a second message by another author; a first
\* message that names a previous
WrongKeyFirst == KVT(Bogus, FeedValue(1), 0)
KeyedMessage(v) == KVT(ValueHash(v), v, 0)
FeedInputs ==
    {FeedKVT(k) : k \in 1..3}
    \cup {WrongKeyFirst,
          KeyedMessage(Value(Bogus, 1, 2, Baseline)),
          KeyedMessage(Value(ValueHash(FeedValue(1)), 2, 2, Baseline)),
          KeyedMessage(Value(Bogus, 1, 1, Baseline))}

FeedParValidateMessageHashChainOfFeed ==
    /\ fn = "none"
    /\ \E ms \in SlicesOf(FeedInputs) :
           Start("par_validate_message_hash_chain_of_feed", ms, None)

NextFeed ==
    \/ FeedParValidateMessageHashChainOfFeed
    \/ \E i \in Indices(status) : Worker(i)
    \/ \E i \in Indices(status) : Skip(i)
    \/ DriverReturn

SpecFeed == Init /\ [][NextFeed]_vars

\* C30: if par_validate_message_hash_chain_of_feed(messages, None) returns
\* Ok for a slice that is not empty, then the first message has previous
\* null, message i (from 1) has sequence i, all messages have the same
\* author, the key of every message is the hash recomputed from its value,
\* and previous of every later message is the hash recomputed from the
\* value of its left neighbour.
C30_AcceptedBatchIsAChain ==
    (/\ BatchReturned /\ fn = "par_validate_message_hash_chain_of_feed"
     /\ ~IsSome(prev) /\ Len(messages) >= 1
     /\ Result = Ok) =>
        /\ \A i \in 1..Len(messages) : messages[i].form = "kvt"
        /\ messages[1].value.previous = Null
        /\ \A i \in 1..Len(messages) : messages[i].value.sequence = i
        /\ \A i, j \in 1..Len(messages) :
               messages[i].value.author = messages[j].value.author
        /\ \A i \in 1..Len(messages) : messages[i].key = RecomputedHash(messages[i])
        /\ \A i \in 2..Len(messages) :
               messages[i].value.previous = RecomputedHash(messages[i - 1])

\* three messages are accepted, every worker having validated its index
C30_FeedOfThreeAccepted ==
    /\ BatchReturned /\ fn = "par_validate_message_hash_chain_of_feed"
    /\ ~IsSome(prev) /\ Len(messages) = 3
    /\ Result = Ok
    /\ \A i \in 1..3 : status[i] = Ok
====
